---- MODULE Spec2Model ----
(***************************************************************************)
(* SDI claim adjudication: the validation gate, the policy rules engine,   *)
(* the payout finalizer and the /adjudicate handler of sdi-api.            *)
(*                                                                         *)
(* Text is modelled by TLA+ strings, on which lower(), strip() and the     *)
(* substring test `k in s` are computed character by character.            *)
(* Money is modelled in exact fixed point: one unit is a fifth of a cent   *)
(* ($0.002), so that amounts finer than a cent exist and round(x, 2) is a  *)
(* real rounding, while no value lies exactly halfway between two cents    *)
(* (where the result of Python's round on a binary float depends on the    *)
(* representation of the value).  The en dash of the labels and the em     *)
(* dash of the summaries are written -.                                    *)
(***************************************************************************)
EXTENDS Integers, Sequences, FiniteSets, TLC

VARIABLES
    call,             \* the call in progress or last made: its name and arguments
    ret,              \* what the last call of a function without loop returned
    pc,               \* position of the running call: "idle", "loop", "done"
    charges,          \* apply_policy_rules: the charge list given
    monthly_rent,     \* apply_policy_rules: the monthly rent given
    i,                \* index of the next charge of the for loop
    approved,         \* list of <<label, amount, reason>>
    excluded,         \* list of <<label, amount, reason>>
    landscaping_used, \* running landscaping cap consumption
    rent_used,        \* running unpaid-rent cap consumption
    total_approved,   \* the returned total
    frames            \* requests served side by side: the locals of each one

vars == <<call, ret, pc, charges, monthly_rent, i, approved, excluded,
          landscaping_used, rent_used, total_approved, frames>>

----------------------------------------------------------------------------
(* Python values *)

\* The value None.
None == "<None>"
\* A key that the dict does not hold.
Absent == "<absent>"

\* dict.get(k, d)
Get(c, k, d) == IF c[k] = Absent THEN d ELSE c[k]

\* v or d, on a string or None
Or(v, d) == IF v = None \/ v = "" THEN d ELSE v

Min(a, b) == IF a <= b THEN a ELSE b
Max(a, b) == IF a >= b THEN a ELSE b

\* Money: n dollars in units of a fifth of a cent.
Dollars(n) == 500 * n

\* round(x, 2): to the nearest cent.
Round2(x) ==
    LET r == x % 5
    IN  IF r <= 2 THEN x - r ELSE x + (5 - r)

----------------------------------------------------------------------------
(* str methods *)

UpperChars == "ABCDEFGHIJKLMNOPQRSTUVWXYZ"
LowerChars == "abcdefghijklmnopqrstuvwxyz"

UpperSet == {SubSeq(UpperChars, k, k) : k \in 1..Len(UpperChars)}

LowerMap ==
    [ch \in UpperSet |->
        LET k == CHOOSE k \in 1..Len(UpperChars) : SubSeq(UpperChars, k, k) = ch
        IN  SubSeq(LowerChars, k, k)]

LowerChar(ch) == IF ch \in UpperSet THEN LowerMap[ch] ELSE ch

RECURSIVE Lower(_)
\* str.lower(): character by character, the string taken by halves.
Lower(s) ==
    IF Len(s) <= 1 THEN LowerChar(s)
    ELSE LET m == Len(s) \div 2
         IN  Lower(SubSeq(s, 1, m)) \o Lower(SubSeq(s, m + 1, Len(s)))

IsSpace(ch) == ch \in {" ", "\t", "\n", "\r", "\f"}

\* str.strip(): from the first to the last character that is not a space.
Strip(s) ==
    LET inked == {j \in 1..Len(s) : ~IsSpace(SubSeq(s, j, j))}
    IN  IF inked = {} THEN ""
        ELSE SubSeq(s, CHOOSE j \in inked : \A k \in inked : j <= k,
                       CHOOSE j \in inked : \A k \in inked : j >= k)

\* k in s
Contains(s, k) ==
    \E j \in 1..(Len(s) - Len(k) + 1) : SubSeq(s, j, j + Len(k) - 1) = k

\* any(k in s for k in needles)
AnyIn(needles, s) == \E k \in needles : Contains(s, k)

StartsWith(s, p) == Len(s) >= Len(p) /\ SubSeq(s, 1, Len(p)) = p

----------------------------------------------------------------------------
(* Python dicts and lists *)

\* d.get(k, default), d a dict: a function whose domain is its keys.
DictGet(d, k, default) == IF k \in DOMAIN d THEN d[k] ELSE default

\* The dict of one key, or the empty dict when the option o is <<>>.
Opt(k, o) == IF o = <<>> THEN <<>> ELSE k :> o[1]

\* The characters of the texts modelled, in code point order.
CodePoints == "\t\n\f\r !$'(),-./0123456789:ABCDEFGHIJKLMNOPQRSTUVWXYZ[]_abcdefghijklmnopqrstuvwxyz"

CharSet == {SubSeq(CodePoints, k, k) : k \in 1..Len(CodePoints)}

Ord == [ch \in CharSet |-> CHOOSE k \in 1..Len(CodePoints) : SubSeq(CodePoints, k, k) = ch]

\* a < b, on strings: by the first character that differs, or else by length.
StrLess(a, b) ==
    LET n == IF Len(a) <= Len(b) THEN Len(a) ELSE Len(b)
        differ == {j \in 1..n : SubSeq(a, j, j) # SubSeq(b, j, j)}
    IN  IF differ = {} THEN Len(a) < Len(b)
        ELSE LET j == CHOOSE j \in differ : \A k \in differ : j <= k
             IN  Ord[SubSeq(a, j, j)] < Ord[SubSeq(b, j, j)]

RECURSIVE Insert(_, _)
Insert(x, sorted) ==
    IF sorted = <<>> THEN <<x>>
    ELSE IF StrLess(x, sorted[1]) THEN <<x>> \o sorted
    ELSE <<sorted[1]>> \o Insert(x, Tail(sorted))

RECURSIVE Sorted(_)
\* sorted(seq), on a list of strings
Sorted(seq) == IF seq = <<>> THEN <<>> ELSE Insert(seq[1], Sorted(Tail(seq)))

RECURSIVE Join(_, _)
\* sep.join(seq)
Join(sep, seq) ==
    IF seq = <<>> THEN ""
    ELSE IF Len(seq) = 1 THEN seq[1]
    ELSE seq[1] \o sep \o Join(sep, Tail(seq))

----------------------------------------------------------------------------
(* utils/rules.py: the documents gate *)

REQ_DOCS == <<"lease_addendum", "lease_agreement", "notification_to_tenant", "tenant_ledger">>

\* [d for d in REQ_DOCS if not documents_present.get(d, False)]
MissingOf(req, documents_present) ==
    SelectSeq(req, LAMBDA d : ~DictGet(documents_present, d, FALSE))

\* The details dict of a gate verdict.
GateDetails(first_rent, rent_ev, first_sdi, sdi_ev, missing, ok) ==
    ("First Month Paid" :> first_rent)
    @@ ("First Month Paid Evidence" :> rent_ev)
    @@ ("First Month SDI Premium Paid" :> first_sdi)
    @@ ("First Month SDI Premium Paid Evidence" :> sdi_ev)
    @@ ("Missing documents" :> missing)
    @@ ("Status" :> IF ok THEN "Approved" ELSE "Declined")

\* The verdict that wants some, not all, of the conditions.
GateApproved_Any(missing, first_rent, first_sdi) == missing = <<>> /\ (first_rent \/ first_sdi)

\* approved = (len(missing) == 0) and first_rent and first_sdi
GateApproved(missing, first_rent, first_sdi) == missing = <<>> /\ first_rent /\ first_sdi

\* validate_gate(documents_present, ledger) -> (approved, details)
validate_gate(documents_present, ledger) ==
    LET missing    == Sorted(MissingOf(REQ_DOCS, documents_present))
        first_rent == DictGet(ledger, "first_month_rent_paid", FALSE)
        first_sdi  == DictGet(ledger, "first_month_sdi_premium_paid", FALSE)
        ok         == GateApproved(missing, first_rent, first_sdi)
    IN  <<ok, GateDetails(first_rent, DictGet(ledger, "first_month_rent_evidence", ""),
                          first_sdi, DictGet(ledger, "first_month_sdi_premium_paid_evidence", ""),
                          missing, ok)>>

----------------------------------------------------------------------------
(* services/ledger_review.py *)

REQUIRED_FILES == <<"lease_addendum", "lease_agreement", "notification_to_tenant", "tenant_ledger">>
OPTIONAL_FILES == <<"invoice", "claim_evaluation_report">>

SeqToSet(seq) == {seq[k] : k \in 1..Len(seq)}

\* The detection that takes a stem holding the identifier for the kind.
detect_documents_present_Substring(input_filenames) ==
    LET names == {Strip(Lower(input_filenames[k])) : k \in 1..Len(input_filenames)}
    IN  [k \in SeqToSet(REQUIRED_FILES \o OPTIONAL_FILES) |-> \E n \in names : Contains(n, k)]

\* detect_documents_present(input_filenames) -> {kind: bool}
detect_documents_present(input_filenames) ==
    LET names == {Strip(Lower(input_filenames[k])) : k \in 1..Len(input_filenames)}
    IN  [k \in SeqToSet(REQUIRED_FILES \o OPTIONAL_FILES) |-> k \in names]

RENT_HINTS == {"rent", "base rent", "monthly rent", "1st month rent", "first month rent"}
SDI_HINTS == {"sdi", "security deposit insurance", "deposit insurance premium", "sdi premium"}
PAID_HINTS == {"paid", "received", "collected", "posted", "credit"}

DigitSet == {"0", "1", "2", "3", "4", "5", "6", "7", "8", "9"}

\* bool(_MONEY.search(line)): the pattern \$?\s?\d{1,3}(?:,\d{3})*(?:\.\d{2})?
\* has a match exactly where the line has a digit, the rest being optional.
_search_money(line) == \E j \in 1..Len(line) : SubSeq(line, j, j) \in DigitSet

\* _line_matches(line, needles)
_line_matches(line, needles) == AnyIn(needles, Lower(line))

RECURSIVE CollapseSpace(_, _, _)
\* re.sub(r"\s+", " ", s) on s[lo..hi]: a space character gives " " when
\* it opens a run of them and nothing when it goes on with one.
CollapseSpace(s, lo, hi) ==
    IF lo > hi THEN ""
    ELSE IF lo = hi
    THEN LET ch == SubSeq(s, lo, lo)
         IN  IF ~IsSpace(ch) THEN ch
             ELSE IF lo > 1 /\ IsSpace(SubSeq(s, lo - 1, lo - 1)) THEN "" ELSE " "
    ELSE LET m == (lo + hi) \div 2
         IN  CollapseSpace(s, lo, m) \o CollapseSpace(s, m + 1, hi)

\* _normalize_text(s)
_normalize_text(s) ==
    LET text == Or(s, "") IN Strip(CollapseSpace(text, 1, Len(text)))

\* The line boundaries of str.splitlines() among the characters modelled.
LineEnds == {"\n", "\r", "\f"}

RECURSIVE SplitLines(_)
\* str.splitlines(): \r\n is one boundary; no empty line after the last one.
SplitLines(s) ==
    IF s = "" THEN <<>>
    ELSE LET ends == {j \in 1..Len(s) : SubSeq(s, j, j) \in LineEnds}
         IN  IF ends = {} THEN <<s>>
             ELSE LET j == CHOOSE j \in ends : \A k \in ends : j <= k
                      skip == IF j < Len(s) /\ SubSeq(s, j, j + 1) = "\r\n" THEN 2 ELSE 1
                  IN  <<SubSeq(s, 1, j - 1)>> \o SplitLines(SubSeq(s, j + skip, Len(s)))

RECURSIVE StripAll(_)
\* [l.strip() for l in lines if l.strip()]
StripAll(lines) ==
    IF lines = <<>> THEN <<>>
    ELSE (IF Strip(lines[1]) # "" THEN <<Strip(lines[1])>> ELSE <<>>) \o StripAll(Tail(lines))

RECURSIVE StrictScan(_, _, _)
\* The first loop of extract_ledger_flags, from line k on, with its break.
StrictScan(lines, k, st) ==
    IF k > Len(lines) THEN st
    ELSE LET line == lines[k]
             has_money == _search_money(line)
             paid_mention == _line_matches(line, PAID_HINTS)
             st1 == IF ~st.rent_paid /\ _line_matches(line, RENT_HINTS)
                        /\ (has_money \/ paid_mention)
                    THEN [st EXCEPT !.rent_paid = TRUE, !.rent_ev = _normalize_text(line)]
                    ELSE st
             st2 == IF ~st1.sdi_paid /\ _line_matches(line, SDI_HINTS)
                        /\ (has_money \/ paid_mention)
                    THEN [st1 EXCEPT !.sdi_paid = TRUE, !.sdi_ev = _normalize_text(line)]
                    ELSE st1
         IN  IF st2.rent_paid /\ st2.sdi_paid THEN st2 ELSE StrictScan(lines, k + 1, st2)

\* The fallback loops that accept no line.
FirstWithHint_None(lines, k, hints) == <<>>

RECURSIVE FirstWithHint(_, _, _)
\* The fallback loops: the first line from k on that holds a hint, or <<>>.
FirstWithHint(lines, k, hints) ==
    IF k > Len(lines) THEN <<>>
    ELSE IF _line_matches(lines[k], hints) THEN <<_normalize_text(lines[k])>>
    ELSE FirstWithHint(lines, k + 1, hints)

\* extract_ledger_flags(ledger_text) -> the ledger flags dict
extract_ledger_flags(ledger_text) ==
    LET lines == StripAll(SplitLines(Or(ledger_text, "")))
        st == StrictScan(lines, 1,
                  [rent_paid |-> FALSE, rent_ev |-> "", sdi_paid |-> FALSE, sdi_ev |-> ""])
        rent_fb == FirstWithHint(lines, 1, RENT_HINTS)
        sdi_fb == FirstWithHint(lines, 1, SDI_HINTS)
        rent == IF ~st.rent_paid /\ rent_fb # <<>> THEN <<TRUE, rent_fb[1]>>
                ELSE <<st.rent_paid, st.rent_ev>>
        sdi == IF ~st.sdi_paid /\ sdi_fb # <<>> THEN <<TRUE, sdi_fb[1]>>
               ELSE <<st.sdi_paid, st.sdi_ev>>
    IN  ("first_month_rent_paid" :> rent[1])
        @@ ("first_month_rent_evidence" :> rent[2])
        @@ ("first_month_sdi_premium_paid" :> sdi[1])
        @@ ("first_month_sdi_premium_paid_evidence" :> sdi[2])

\* A copy of the gate that has drifted: it no longer asks for the SDI premium.
lr_validate_gate_Drifted(documents_present, ledger) ==
    LET missing    == Sorted(MissingOf(REQUIRED_FILES, documents_present))
        first_rent == DictGet(ledger, "first_month_rent_paid", FALSE)
        first_sdi  == DictGet(ledger, "first_month_sdi_premium_paid", FALSE)
        ok         == missing = <<>> /\ first_rent
    IN  <<ok, GateDetails(first_rent, DictGet(ledger, "first_month_rent_evidence", ""),
                          first_sdi, DictGet(ledger, "first_month_sdi_premium_paid_evidence", ""),
                          missing, ok)>>

\* validate_gate of ledger_review.py, with REQ_DOCS = REQUIRED_FILES
lr_validate_gate(documents_present, ledger) ==
    LET missing    == Sorted(MissingOf(REQUIRED_FILES, documents_present))
        first_rent == DictGet(ledger, "first_month_rent_paid", FALSE)
        first_sdi  == DictGet(ledger, "first_month_sdi_premium_paid", FALSE)
        ok         == missing = <<>> /\ first_rent /\ first_sdi
    IN  <<ok, GateDetails(first_rent, DictGet(ledger, "first_month_rent_evidence", ""),
                          first_sdi, DictGet(ledger, "first_month_sdi_premium_paid_evidence", ""),
                          missing, ok)>>

\* f"{b}", b a bool
StrBool(b) == IF b THEN "True" ELSE "False"

\* f"{xs}", xs a list of strings
StrList(xs) == "[" \o Join(", ", [k \in 1..Len(xs) |-> "'" \o xs[k] \o "'"]) \o "]"

\* format_gate_result(details, summary); the bullet of each line is written *.
format_gate_result(details, summary) ==
    Join("\n",
      <<"* First Month Paid: " \o StrBool(details["First Month Paid"]),
        "* First Month Paid Evidence: " \o details["First Month Paid Evidence"],
        "* First Month SDI Premium Paid: " \o StrBool(details["First Month SDI Premium Paid"]),
        "* First Month SDI Premium Paid Evidence: "
            \o details["First Month SDI Premium Paid Evidence"],
        "* Missing documents: " \o StrList(details["Missing documents"]),
        "* Status: " \o details["Status"],
        "* Summary of decision: " \o summary>>)

\* The decline summary that stops at the first unmet condition.
DeclineReasons_First(details) ==
    IF details["Missing documents"] # <<>>
    THEN <<"Missing required file(s): " \o Join(", ", details["Missing documents"])>>
    ELSE IF ~details["First Month Paid"] THEN <<"First-month rent not found in ledger.">>
    ELSE <<"First-month SDI premium not found in ledger.">>

\* The reasons list of a declined review.
DeclineReasons(details) ==
    (IF details["Missing documents"] # <<>>
     THEN <<"Missing required file(s): " \o Join(", ", details["Missing documents"])>>
     ELSE <<>>)
    \o (IF ~details["First Month Paid"]
        THEN <<"First-month rent not found in ledger.">> ELSE <<>>)
    \o (IF ~details["First Month SDI Premium Paid"]
        THEN <<"First-month SDI premium not found in ledger.">> ELSE <<>>)

\* The summary of a review.
ReviewSummary(details) ==
    IF details["Status"] = "Approved"
    THEN "All required documents are present. "
         \o "First-month rent and SDI premium were confirmed in the tenant ledger."
    ELSE LET reasons == DeclineReasons(details)
         IN  IF reasons # <<>> THEN Join(" ", reasons)
             ELSE "One or more approval conditions were not met."

\* review_inputs_and_format_output(input_filenames, tenant_ledger_text)
\*   -> (approved, details, formatted)
review_inputs_and_format_output(input_filenames, tenant_ledger_text) ==
    LET docs_present == detect_documents_present(input_filenames)
        ledger_flags == extract_ledger_flags(Or(tenant_ledger_text, ""))
        gate == lr_validate_gate(docs_present, ledger_flags)
    IN  <<gate[1], gate[2], format_gate_result(gate[2], ReviewSummary(gate[2]))>>

----------------------------------------------------------------------------
(* utils/rules.py: policy helpers *)

DAMAGE_HINTS ==
    {"stain", "hole", "burn", "tear", "ripple", "gouge", "scratch", "soiled",
     "excessive", "ruin", "broken", "damage", "beyond wear", "heavy odor", "pet urine"}

UTIL_SYNONYMS == {"utility", "utilities", "water", "sewer", "gas", "electric", "power"}
REKEY_SYNONYMS == {"rekey", "locksmith", "lock change", "change locks"}
LANDSCAPE_SYNONYMS == {"landscaping", "lawn", "yard", "grounds"}

_looks_beyond_wear(desc) == AnyIn(DAMAGE_HINTS, Lower(Or(desc, "")))

_is_util(cat, desc) == AnyIn(UTIL_SYNONYMS, Lower(cat \o " " \o desc))

_is_rekey(cat, desc) == AnyIn(REKEY_SYNONYMS, Lower(cat \o " " \o desc))

_is_landscape(cat, desc) == AnyIn(LANDSCAPE_SYNONYMS, Lower(cat \o " " \o desc))

----------------------------------------------------------------------------
(* utils/rules.py: apply_policy_rules *)

\* The filter letting through every status but "paid".
include_only_unpaid_NotPaid(c) == Lower(Get(c, "status", "")) # "paid"

\* A charge dict: every string field is a string, None or Absent; the amount
\* is tagged (see AmountOf); a flag that is absent is FALSE.
include_only_unpaid(c) == Lower(Get(c, "status", "")) \in {"unpaid", "overdue"}

Digits == "0123456789"

DigitVal(ch) == (CHOOSE k \in 1..Len(Digits) : SubSeq(Digits, k, k) = ch) - 1

IsDigits(s) == s # "" /\ \A j \in 1..Len(s) : Contains(Digits, SubSeq(s, j, j))

RECURSIVE IntOf(_)
\* The number a string of digits writes.
IntOf(s) ==
    IF s = "" THEN 0
    ELSE 10 * IntOf(SubSeq(s, 1, Len(s) - 1)) + DigitVal(SubSeq(s, Len(s), Len(s)))

RECURSIVE Pow10(_)
Pow10(n) == IF n = 0 THEN 1 ELSE 10 * Pow10(n - 1)

\* The numeral whole.frac, either part possibly empty: its units, or
\* <<"error">> when a part holds something else than digits or both are
\* empty.
ParseParts(whole, frac) ==
    IF /\ whole = "" \/ IsDigits(whole)
       /\ frac = "" \/ IsDigits(frac)
       /\ whole # "" \/ frac # ""
    THEN <<"ok", Dollars(IntOf(whole)) + (Dollars(IntOf(frac)) \div Pow10(Len(frac)))>>
    ELSE <<"error">>

\* The unsigned numeral body, split at its point, the points being given.
ParseAt(body, points) ==
    IF Cardinality(points) > 1 THEN <<"error">>
    ELSE IF points = {} THEN ParseParts(body, "")
    ELSE ParseParts(SubSeq(body, 1, (CHOOSE j \in points : TRUE) - 1),
                    SubSeq(body, (CHOOSE j \in points : TRUE) + 1, Len(body)))

ParseUnsigned(body) ==
    ParseAt(body, {j \in 1..Len(body) : SubSeq(body, j, j) = "."})

\* The result r with the sign applied.
Signed(sign, r) == IF sign = "-" /\ r[1] = "ok" THEN <<"ok", 0 - r[2]>> ELSE r

ParseNumeral(t) ==
    IF t # "" /\ SubSeq(t, 1, 1) \in {"+", "-"}
    THEN Signed(SubSeq(t, 1, 1), ParseUnsigned(SubSeq(t, 2, Len(t))))
    ELSE ParseUnsigned(t)

\* float(s), s a str: <<"ok", units>> for blanks, a sign, digits and at most
\* one point with a digit on one side of it; <<"error">>, the ValueError,
\* for a text that is not a decimal numeral (a word, a currency sign, a
\* thousands comma).  Exponents, underscores, "inf" and "nan", which
\* float() takes too, are not among the amounts considered.
ParseFloat(s) == ParseNumeral(Strip(s))

\* float(c.get("amount", 0) or 0) raises: the amount is a non-empty str that
\* float() does not take.
AmountRaises(c) ==
    c.amount[1] = "str" /\ c.amount[2] # "" /\ ParseFloat(c.amount[2])[1] = "error"

\* float(c.get("amount", 0) or 0), when it does not raise.  The amount is
\* <<"num", n>>, <<"none">> (None), <<"absent">> (no key) or <<"str", s>>.
AmountOf(c) ==
    CASE c.amount[1] = "num" -> c.amount[2]
      [] c.amount[1] \in {"none", "absent"} -> 0
      [] c.amount[1] = "str" ->
            IF c.amount[2] = "" THEN 0 ELSE ParseFloat(c.amount[2])[2]

\* (c.get("category") or "").lower().strip()
CatOf(c) == Strip(Lower(Or(Get(c, "category", None), "")))

\* c.get("description", "") or ""
DescOf(c) == Or(Get(c, "description", ""), "")

\* (c.get("wear") or "").lower().strip()
WearOf(c) == Strip(Lower(Or(Get(c, "wear", None), "")))

\* The hard exclusions without lawn_vacant.
HardExcluded_NoLawn(cat) ==
    cat \in {"non_refundable_fee", "benefit_program", "pet_damage"}

HardExcluded(cat) ==
    cat \in {"non_refundable_fee", "benefit_program", "pet_damage", "lawn_vacant"}

NormalWearExcluded(cat, wear) == cat \in {"cleaning", "normal_wear"} /\ wear = "normal"

\* The normalization with landscaping tried before rekey.
Normalize_LandscapeFirst(cat, desc) ==
    IF _is_landscape(cat, desc) THEN "landscaping"
    ELSE IF _is_rekey(cat, desc) THEN "rekey"
    ELSE IF _is_util(cat, desc) THEN "unpaid_utilities"
    ELSE cat

\* The normalization left out.
Normalize_None(cat, desc) == cat

\* Normalize categories by synonyms / description.
Normalize(cat, desc) ==
    IF _is_rekey(cat, desc) THEN "rekey"
    ELSE IF _is_landscape(cat, desc) THEN "landscaping"
    ELSE IF _is_util(cat, desc) THEN "unpaid_utilities"
    ELSE cat

LandscapeLimit == Dollars(500)

\* The cap taken per charge, the running consumption forgotten.
\* The landscaping cap that ignores the amount: whatever is left of $500.
LandscapeCap_Remaining(amt, used) == Max(0, LandscapeLimit - used)

\* The landscaping cap left out.
LandscapeCap_Uncapped(amt, used) == Max(0, amt)

LandscapeCap_PerCharge(amt, used) == Max(0, Min(amt, LandscapeLimit))

\* max(0.0, min(amt, 500.0 - landscaping_used))
LandscapeCap(amt, used) == Max(0, Min(amt, LandscapeLimit - used))

\* The cap taken per charge, the running consumption forgotten.
RentCap_PerCharge(amt, rent, used) == Max(0, Min(amt, rent))

\* max(0.0, min(amt, monthly_rent - rent_used))
RentCap(amt, rent, used) == Max(0, Min(amt, rent - used))

\* min(amt, monthly_rent), of a lease-break charge
\* The lease-break cap left out.
LeaseBreakCap_Uncapped(amt, rent) == amt

LeaseBreakCap(amt, rent) == Min(amt, rent)

\* The damage hint consulted whatever the wear given.
CleaningApproved_HintAlways(wear, desc) == wear = "beyond" \/ _looks_beyond_wear(desc)

\* wear == "beyond" or (not wear and _looks_beyond_wear(desc))
CleaningApproved(wear, desc) == wear = "beyond" \/ (wear = "" /\ _looks_beyond_wear(desc))

\* One iteration of `for c in charges`, from the locals st to the locals after it.
Body(c, st, rent) ==
    LET app(t) == [st EXCEPT !.approved = Append(@, t)]
        exc(t) == [st EXCEPT !.excluded = Append(@, t)]
    IN
    IF ~include_only_unpaid(c)
    THEN exc(<<Get(c, "description", ""), AmountOf(c), "Paid/Not overdue">>)
    ELSE
    LET cat0 == CatOf(c)
        desc == DescOf(c)
        amt  == AmountOf(c)
        wear == WearOf(c)
    IN
    IF HardExcluded(cat0) THEN exc(<<desc, amt, "Policy exclusion">>)
    ELSE IF NormalWearExcluded(cat0, wear) THEN exc(<<desc, amt, "Normal wear and tear">>)
    ELSE
    LET cat == Normalize(cat0, desc) IN
    IF cat = "cleaning" THEN
        IF CleaningApproved(wear, desc)
        THEN app(<<"Cleaning - " \o desc, amt, "Beyond normal wear and tear">>)
        ELSE exc(<<desc, amt, "Unspecified/normal wear">>)
    ELSE IF cat = "rekey" THEN app(<<"Rekey - " \o desc, amt, "Move-out rekey">>)
    ELSE IF cat = "landscaping" THEN
        LET cap == LandscapeCap(amt, st.landscaping_used) IN
        IF cap > 0
        THEN [st EXCEPT
                !.approved = Append(@, <<"Landscaping - " \o desc, cap, "Capped at $500">>),
                !.excluded = IF amt > cap
                             THEN Append(@, <<desc, amt - cap, "Over $500 cap">>) ELSE @,
                !.landscaping_used = @ + cap]
        ELSE exc(<<desc, amt, "Over $500 cap">>)
    ELSE IF cat \in {"utilities", "unpaid_utilities"}
    THEN app(<<"Unpaid Utilities - " \o desc, amt, "Covered">>)
    ELSE IF cat = "unpaid_rent" THEN
        LET cap == RentCap(amt, rent, st.rent_used) IN
        IF cap > 0
        THEN [st EXCEPT
                !.approved = Append(@, <<"Unpaid Rent - " \o desc, cap, "Capped at one month rent">>),
                !.excluded = IF amt > cap
                             THEN Append(@, <<desc, amt - cap, "Over one month rent">>) ELSE @,
                !.rent_used = @ + cap]
        ELSE exc(<<desc, amt, "Over one month rent">>)
    ELSE IF cat \in {"lease_break", "relisting_fee", "lease_break_fee"} THEN
        IF c.accelerated_moveout
        THEN app(<<"Lease Break Fee (Accelerated) - " \o desc, amt,
                   "Exception: accelerated move-out">>)
        ELSE LET cap == LeaseBreakCap(amt, rent) IN
             [st EXCEPT
                !.approved = Append(@, <<"Lease Break Fee - " \o desc, cap, "Capped at one month rent">>),
                !.excluded = IF amt > cap
                             THEN Append(@, <<desc, amt - cap, "Over one month rent">>) ELSE @]
    ELSE IF cat = "prorated_rent" THEN
        IF c.linked_to_occupancy
        THEN app(<<"Prorated Rent - " \o desc, amt, "Linked to occupancy/lease obligations">>)
        ELSE exc(<<desc, amt, "Exclude unless clearly linked">>)
    ELSE exc(<<desc, amt, "Unknown category (exclude)">>)

RECURSIVE SumAmounts(_)
\* sum(a[1] for a in tuples)
SumAmounts(tuples) ==
    IF tuples = <<>> THEN 0 ELSE tuples[1][2] + SumAmounts(Tail(tuples))

\* The total left unrounded.
TotalOf_Unrounded(app) == SumAmounts(app)

\* round(sum(a[1] for a in approved), 2)
TotalOf(app) == Round2(SumAmounts(app))

\* The locals approved, excluded, landscaping_used, rent_used at loop entry.
Locals0 == [approved |-> <<>>, excluded |-> <<>>, landscaping_used |-> 0, rent_used |-> 0]

RECURSIVE RunTo(_, _, _)
\* The locals after the first k iterations of `for c in charges`.
RunTo(cs, rent, k) ==
    IF k = 0 THEN Locals0 ELSE Body(cs[k], RunTo(cs, rent, k - 1), rent)

Locals ==
    [approved |-> approved, excluded |-> excluded,
     landscaping_used |-> landscaping_used, rent_used |-> rent_used]

\* A float argument that may be None: <<"num", n>> or <<"none">>.
Num(n) == <<"num", n>>

\* float(max_benefit or 0)
BenefitOf(max_benefit) == IF max_benefit[1] = "num" THEN max_benefit[2] ELSE 0

\* The payout left unclipped.
finalize_payout_NoClip(total, max_benefit) == Round2(total)

\* round(min(total_approved, float(max_benefit or 0)), 2)
finalize_payout(total, max_benefit) == Round2(Min(total, BenefitOf(max_benefit)))

----------------------------------------------------------------------------
(* routers/adjudicate.py *)

\* The fields of DocumentsPresent, in the order of its dict().
DocFields == <<"lease_addendum", "lease_agreement", "notification_to_tenant",
               "tenant_ledger", "invoice", "claim_evaluation_report">>

\* not v, v an Optional[float]
NotAmount(v) == v[1] = "none" \/ v[2] = 0

\* not v, v an Optional[str] or an Optional[date]
NotValue(v) == v = None \/ v = ""

\* The readiness that does not ask for a jurisdiction.
payout_readiness_NoJurisdiction(payload) ==
    LET effective_jurisdiction == Or(payload.jurisdiction, payload.lease_state)
        missing ==
            (IF NotAmount(payload.deposit_amount) THEN <<"deposit_amount">> ELSE <<>>)
            \o (IF NotValue(payload.move_out_date) THEN <<"move_out_date">> ELSE <<>>)
    IN  [ready |-> Len(missing) = 0, missing |-> missing,
         effective_jurisdiction |-> effective_jurisdiction]

\* The readiness that judges the jurisdiction without the lease state.
payout_readiness_NoFallback(payload) ==
    LET effective_jurisdiction == payload.jurisdiction
        missing ==
            (IF NotAmount(payload.deposit_amount) THEN <<"deposit_amount">> ELSE <<>>)
            \o (IF NotValue(payload.move_out_date) THEN <<"move_out_date">> ELSE <<>>)
            \o (IF NotValue(effective_jurisdiction) THEN <<"jurisdiction">> ELSE <<>>)
    IN  [ready |-> Len(missing) = 0, missing |-> missing,
         effective_jurisdiction |-> effective_jurisdiction]

\* payout_readiness(payload) -> {ready, missing, effective_jurisdiction}
payout_readiness(payload) ==
    LET effective_jurisdiction == Or(payload.jurisdiction, payload.lease_state)
        missing ==
            (IF NotAmount(payload.deposit_amount) THEN <<"deposit_amount">> ELSE <<>>)
            \o (IF NotValue(payload.move_out_date) THEN <<"move_out_date">> ELSE <<>>)
            \o (IF NotValue(effective_jurisdiction) THEN <<"jurisdiction">> ELSE <<>>)
    IN  [ready |-> Len(missing) = 0, missing |-> missing,
         effective_jurisdiction |-> effective_jurisdiction]

\* [k for k, v in documents_present.items() if v]
SubmittedDocs(documents_present) == SelectSeq(DocFields, LAMBDA k : documents_present[k])

\* [{"item": a[0], "amount": a[1], "reason": a[2]} for a in tuples]
Items(tuples) ==
    [k \in 1..Len(tuples) |->
        [item |-> tuples[k][1], amount |-> tuples[k][2], reason |-> tuples[k][3]]]

\* The output_template dict of a response.
OutputTemplate(payload, status, approved_items, excluded_items, total, final_payout) ==
    ("Tenant Name" :> payload.tenant_name)
    @@ ("Assessment Status" :> status)
    @@ ("Property Address" :> payload.property_address)
    @@ ("Monthly Rent" :> payload.monthly_rent)
    @@ ("Submitted Documents" :> SubmittedDocs(payload.documents_present))
    @@ ("Approved Charges" :> approved_items)
    @@ ("Excluded Charges" :> excluded_items)
    @@ ("Total Approved Charges" :> total)
    @@ ("Final Payout Based on Coverage" :> final_payout)

\* The response of a failed gate.
DeclinedResponse(payload, validation) ==
    [validation |-> validation,
     final_payout_available |-> FALSE,
     missing_fields |-> <<>>,
     output_template |-> OutputTemplate(payload, "Declined", <<>>, <<>>, 0, 0),
     summary_of_decision |-> "Required gate(s) failed. Declined per policy."]

\* The response when the final payout is not available.
EstimateResponse(payload, validation, app, exc, total, readiness) ==
    [validation |-> validation,
     final_payout_available |-> FALSE,
     missing_fields |-> readiness.missing,
     output_template |->
        OutputTemplate(payload, "Approved", Items(app), Items(exc), total, 0),
     summary_of_decision |->
        "Final payout not available: missing required fields - "
        \o Join(", ", readiness.missing)
        \o ". Only estimated payout may be shown."]

\* The response whose payout depends on the jurisdiction: nothing is paid
\* in NY.
FinalResponse_ByJurisdiction(payload, validation, app, exc, total, readiness) ==
    [validation |-> validation,
     final_payout_available |-> TRUE,
     missing_fields |-> <<>>,
     output_template |->
        OutputTemplate(payload, "Approved", Items(app), Items(exc), total,
                       IF readiness.effective_jurisdiction = "NY" THEN 0
                       ELSE finalize_payout(total, payload.max_benefit)),
     jurisdiction_used |-> readiness.effective_jurisdiction,
     summary_of_decision |->
        "Policy rules applied with caps; payout limited by Max Benefit."]

\* The response with the final payout.
FinalResponse(payload, validation, app, exc, total, readiness) ==
    [validation |-> validation,
     final_payout_available |-> TRUE,
     missing_fields |-> <<>>,
     output_template |->
        OutputTemplate(payload, "Approved", Items(app), Items(exc), total,
                       finalize_payout(total, payload.max_benefit)),
     jurisdiction_used |-> readiness.effective_jurisdiction,
     summary_of_decision |->
        "Policy rules applied with caps; payout limited by Max Benefit."]

\* The gate verdict of the payload.
GateOf(payload) == validate_gate(payload.documents_present, payload.ledger_checks)

\* The handler that goes on after a failed gate.
GateStops_Never(ok) == FALSE

\* if not ok: return the declined response
GateStops(ok) == ~ok

----------------------------------------------------------------------------
(* Inputs *)

MaxCharges == 2
MaxCapCharges == 3

Charge(cat, desc, amt, status, wear, acc, linked) ==
    [category |-> cat, description |-> desc, amount |-> amt, status |-> status,
     wear |-> wear, accelerated_moveout |-> acc, linked_to_occupancy |-> linked]

\* Charges that exercise the two running caps and the ways into and out
\* of the capped categories.
CapCharges ==
    {Charge("landscaping", "mowing", Num(a), "unpaid", None, FALSE, FALSE) :
        a \in {Dollars(600), Dollars(200) + 3, 0 - Dollars(100)}}
    \cup
    {Charge("unpaid_rent", "March", Num(a), "overdue", None, FALSE, FALSE) :
        a \in {Dollars(200), Dollars(300) + 1}}
    \cup
    {Charge("misc", "Yard cleanup", Num(Dollars(300)), "Unpaid", None, FALSE, FALSE),
     Charge("lawn_vacant", "lawn care", Num(Dollars(300)), "unpaid", None, FALSE, FALSE),
     Charge("landscaping", "mowing", Num(Dollars(300)), "paid", None, FALSE, FALSE),
     Charge("unpaid_rent", "rent and water", Num(Dollars(300) + 4), "unpaid", None, FALSE, FALSE),
     Charge("lease_break", "fee", Num(Dollars(300)), "unpaid", None, FALSE, FALSE)}

CapRents == {0 - Dollars(100), 0, Dollars(250)}

\* Charges that exercise the status filter, the exclusions, the synonym
\* normalization and every branch of the category dispatch.
ClassCharges ==
    {Charge("landscaping", "mowing", Num(Dollars(300)), st, None, FALSE, FALSE) :
        st \in {"paid", Absent, " unpaid"}}
    \cup
    {Charge("unpaid_rent", None, Num(Dollars(200)), st, None, FALSE, FALSE) :
        st \in {"paid", Absent, " unpaid"}}
    \cup
    {Charge("Cleaning ", d, Num(Dollars(100) + 3), "OVERDUE", w, FALSE, FALSE) :
        d \in {"Carpet STAIN", "dusting"}, w \in {None, "normal", " Beyond", "heavy"}}
    \cup
    {Charge("cleaning", "carpet stain", Num(Dollars(100)), "paid", "beyond", FALSE, FALSE),
     Charge("cleaning", "carpet stain", Num(Dollars(100)), "unpaid", "", FALSE, FALSE),
     Charge("cleaning", None, Num(Dollars(100)), "unpaid", None, FALSE, FALSE),
     Charge("cleaning", "yard stain", Num(Dollars(100)), "unpaid", None, FALSE, FALSE),
     Charge("cleaning", "locksmith damage", Num(Dollars(100)), "unpaid", " NORMAL", FALSE, FALSE),
     Charge("normal_wear", "paint", Num(Dollars(100)), "unpaid", "normal", FALSE, FALSE),
     Charge("pet_damage", "locksmith", Num(Dollars(100)), "unpaid", None, FALSE, FALSE),
     Charge("Lawn_Vacant ", "lawn water", Num(Dollars(100)), "unpaid", None, FALSE, FALSE),
     Charge("non_refundable_fee", "fee", Num(Dollars(100)), "unpaid", None, FALSE, FALSE),
     Charge("benefit_program", None, Num(Dollars(100)), "unpaid", None, FALSE, FALSE),
     Charge("misc", "Locksmith, yard and water", Num(Dollars(100)), "unpaid", None, FALSE, FALSE),
     Charge("misc", "Lawn and water", Num(Dollars(300)), "unpaid", None, FALSE, FALSE),
     Charge("misc", "power bill", Num(Dollars(100)), "unpaid", None, FALSE, FALSE),
     Charge("utilities", "bill", Num(Dollars(100)), "unpaid", None, FALSE, FALSE),
     Charge("lock", "change", Num(Dollars(100)), "unpaid", None, FALSE, FALSE),
     Charge(None, "painting", Num(Dollars(100)), "unpaid", None, FALSE, FALSE),
     Charge("rekey", "rekey", <<"none">>, "unpaid", None, FALSE, FALSE),
     Charge("unpaid_rent", "March", Num(Dollars(200)), "unpaid", None, FALSE, FALSE),
     Charge("lease_break", "fee", Num(Dollars(300)), "unpaid", None, FALSE, FALSE),
     Charge("relisting_fee", "fee", Num(Dollars(300)), "unpaid", None, TRUE, FALSE),
     Charge("prorated_rent", "June", Num(Dollars(100)), "unpaid", None, FALSE, FALSE),
     Charge("prorated_rent", "June", Num(Dollars(100)), "unpaid", None, FALSE, TRUE)}

ClassRents == {Dollars(250)}

\* All the charges a call may be given.
AnyCharge == ClassCharges \cup CapCharges

\* Every presence dict over the six kinds: a kind is absent, false or true
\* (claim_evaluation_report absent or true).
GateDocs ==
    {Opt("lease_addendum", a) @@ Opt("lease_agreement", b) @@ Opt("notification_to_tenant", c)
        @@ Opt("tenant_ledger", d) @@ Opt("invoice", e) @@ Opt("claim_evaluation_report", f) :
        a \in {<<>>, <<FALSE>>, <<TRUE>>}, b \in {<<>>, <<FALSE>>, <<TRUE>>},
        c \in {<<>>, <<FALSE>>, <<TRUE>>}, d \in {<<>>, <<FALSE>>, <<TRUE>>},
        e \in {<<>>, <<FALSE>>, <<TRUE>>}, f \in {<<>>, <<TRUE>>}}

\* Ledger evidence dicts: each flag absent, false or true, each evidence
\* absent or given.
GateLedgers ==
    {Opt("first_month_rent_paid", a) @@ Opt("first_month_rent_evidence", b)
        @@ Opt("first_month_sdi_premium_paid", c)
        @@ Opt("first_month_sdi_premium_paid_evidence", d) :
        a \in {<<>>, <<FALSE>>, <<TRUE>>}, b \in {<<>>, <<"Rent: $1200 paid on 1/1">>},
        c \in {<<>>, <<FALSE>>, <<TRUE>>}, d \in {<<>>, <<"">>}}

\* Lists of submitted stems: the required kinds in part or in full, in and
\* out of order, with other case and blanks, with optional and unknown stems.
ReviewFiles ==
    {SelectSeq(REQUIRED_FILES, LAMBDA d : d \in K) : K \in SUBSET SeqToSet(REQUIRED_FILES)}
    \cup
    {<<"tenant_ledger", "invoice", "notification_to_tenant", " Lease_Agreement", "LEASE_ADDENDUM ">>,
     <<"lease_addendum_v2", "lease_agreement", "notification_to_tenant", "tenant_ledger">>,
     <<"invoice", "claim_evaluation_report">>,
     <<"tenant_ledger", "tenant_ledger", "lease_agreement">>}

\* Ledger texts: none, with corroborated lines, with bare mentions only.
ReviewTexts ==
    {None, "",
     "Rent: $1200 paid on 1/1",
     "Rent: $1200 paid on 1/1\nSDI premium 45.00 posted",
     "Tenant   ledger\n\n  SDI premium   received \r\nBalance forward 0.00",
     "first month rent due\nsecurity deposit insurance",
     "Security Deposit Insurance premium\nMonthly Rent 1,200.00 collected",
     "Balance forward 100.00\nLate fee"}

ListsOf(D, n) == UNION {[1..k -> D] : k \in 0..n}

\* Amounts around zero in steps of a fifth of a cent, and amounts in dollars.
MaxFine == 12

PayoutAmounts ==
    ((0 - MaxFine)..MaxFine)
    \cup {Dollars(800), Dollars(1000), Dollars(1200), Dollars(1000) + 3, 0 - Dollars(300)}

PayoutBenefits == {Num(n) : n \in PayoutAmounts} \cup {<<"none">>}

MaxAdjCharges == 2

\* Charges of a request: one approved with a fraction of a cent, one
\* capped, one already paid, one excluded.
AdjCharges ==
    {Charge("cleaning", "carpet stain", Num(Dollars(100) + 3), "unpaid", "beyond", FALSE, FALSE),
     Charge("unpaid_rent", "March", Num(Dollars(300)), "overdue", None, FALSE, FALSE),
     Charge("landscaping", "mowing", Num(Dollars(300)), "paid", None, FALSE, FALSE),
     Charge("non_refundable_fee", "fee", Num(Dollars(100)), "unpaid", None, FALSE, FALSE)}

\* DocumentsPresent values: complete with and without an invoice, one
\* required document missing, nothing submitted.
AdjDocs ==
    {[k \in SeqToSet(DocFields) |-> k \in K] :
        K \in {SeqToSet(REQ_DOCS), SeqToSet(REQ_DOCS) \cup {"invoice"},
                (SeqToSet(REQ_DOCS) \ {"tenant_ledger"}) \cup {"invoice"}, {}}}

\* LedgerChecks values.
AdjLedgers ==
    {("first_month_rent_paid" :> a) @@ ("first_month_rent_evidence" :> "Rent: $1200 paid on 1/1")
        @@ ("first_month_sdi_premium_paid" :> b)
        @@ ("first_month_sdi_premium_paid_evidence" :> "") :
        a \in BOOLEAN, b \in BOOLEAN}

\* AdjudicateRequest values.
AdjPayloads ==
    [tenant_name : {"Ana"},
     property_address : {"1 Elm St"},
     monthly_rent : {Dollars(250)},
     max_benefit : {Num(0), Num(Dollars(150)), Num(Dollars(1000))},
     deposit_amount : {<<"none">>, Num(0), Num(Dollars(500))},
     jurisdiction : {None, "", "CA"},
     lease_state : {None, "TX"},
     move_out_date : {None, "2024-06-30"},
     documents_present : AdjDocs,
     ledger_checks : AdjLedgers,
     charges : ListsOf(AdjCharges, MaxAdjCharges)]

\* The fields of a request that payout_readiness reads.
ReadinessPayloads ==
    [deposit_amount : {<<"none">>, Num(0), Num(Dollars(500)), Num(1), Num(0 - Dollars(500))},
     jurisdiction : {None, "", "CA", "NY"},
     lease_state : {None, "", "TX"},
     move_out_date : {None, "2024-06-30"}]

MaxLines == 3

\* Ledger lines: with a hint and a payment word or an amount, with a hint
\* alone, with both kinds of hint, blank, with an amount and no hint.
LedgerLines ==
    {"Rent: $1200 paid", "rent due", "SDI premium posted", "security deposit insurance",
     "Base rent  and SDI premium 45.00", "  ", "Late fee 25.00"}

\* Ledger texts of at most MaxLines lines, and no text.
LedgerTexts == {Join("\n", ls) : ls \in ListsOf(LedgerLines, MaxLines)} \cup {None}

MaxStems == 2

\* Submitted stems: the six identifiers, two of them in other case and with
\* blanks, two that only hold an identifier, and the empty stem.
Stems ==
    SeqToSet(REQUIRED_FILES \o OPTIONAL_FILES)
    \cup {" Lease_Agreement", "LEASE_ADDENDUM \t", "lease_addendum_v2", "my invoice", ""}

StemLists == ListsOf(Stems, MaxStems)

MaxMalformed == 2

\* Charges whose amount is missing, None, an empty or a numeric str, a str
\* that is no number, and well-formed ones beside them.
MalformedCharges ==
    {Charge("rekey", "rekey", a, "unpaid", None, FALSE, FALSE) :
        a \in {<<"absent">>, <<"none">>, <<"str", "">>, <<"str", " 12.50 ">>,
               <<"str", "N/A">>, <<"str", "$100">>, <<"str", "1,200.00">>}}
    \cup
    {Charge("misc", "other", <<"str", "N/A">>, "paid", None, FALSE, FALSE),
     Charge("misc", "other", <<"absent">>, "unpaid", None, FALSE, FALSE),
     Charge("utilities", "water", Num(Dollars(100)), "unpaid", None, FALSE, FALSE)}

MaxCatCharges == 2

\* Charges without a category: the key missing, None or empty, with a plain
\* description and with descriptions that hold a synonym.
NoCategoryCharges ==
    {Charge(Absent, d, Num(Dollars(300)), "unpaid", None, FALSE, FALSE) :
        d \in {"painting", "locksmith visit", "mowing the yard", "water bill"}}
    \cup
    {Charge(None, d, Num(Dollars(300)), "overdue", None, FALSE, FALSE) :
        d \in {"painting", "locksmith visit", None}}
    \cup
    {Charge("", d, Num(Dollars(300)), "unpaid", None, FALSE, FALSE) :
        d \in {"painting", "water bill"}}

\* Charges of the hard-excluded categories, with synonyms in the
\* description, wear and flags.
HardCharges ==
    {Charge("Lawn_Vacant ", "lawn water", Num(Dollars(300)), "unpaid", None, FALSE, FALSE),
     Charge("pet_damage", "locksmith", Num(Dollars(300)), "unpaid", "beyond", FALSE, FALSE),
     Charge(" PET_DAMAGE", "yard", Num(Dollars(100) + 3), "overdue", "normal", FALSE, FALSE),
     Charge("non_refundable_fee", "rekey fee", Num(Dollars(300)), "unpaid", None, TRUE, FALSE),
     Charge("benefit_program", None, Num(Dollars(300)), "unpaid", None, FALSE, TRUE)}

\* Charges whose category and description hold synonyms of one, two or
\* three sets, or of none.
SynonymCharges ==
    {Charge("misc", "Locksmith, yard and water", Num(Dollars(300)), "unpaid", None, FALSE, FALSE),
     Charge("misc", "Lawn and water", Num(Dollars(300)), "unpaid", None, FALSE, FALSE),
     Charge("misc", "Lawn and water", Num(Dollars(100)), "overdue", "beyond", FALSE, FALSE),
     Charge("misc", "power bill", Num(Dollars(300)), "unpaid", None, FALSE, FALSE),
     Charge("Misc ", "painting", Num(Dollars(300)), "unpaid", None, FALSE, FALSE),
     Charge("lock", "change", Num(Dollars(300)), "unpaid", None, FALSE, FALSE),
     Charge("landscaping", "rekey the gate", Num(Dollars(300)), "unpaid", None, FALSE, FALSE),
     Charge("Utilities ", "yard work", Num(Dollars(300)), "unpaid", None, FALSE, FALSE),
     Charge("unpaid_rent", "rent and water", Num(Dollars(300)), "unpaid", None, FALSE, FALSE),
     Charge("Grounds", "upkeep", Num(Dollars(300)), "unpaid", None, FALSE, FALSE),
     Charge(" Unpaid_Rent", "March", Num(Dollars(300)), "unpaid", None, FALSE, FALSE),
     Charge("Prorated_Rent ", "June", Num(Dollars(100)), "unpaid", "normal", FALSE, TRUE)}

CategoryCharges == NoCategoryCharges \cup HardCharges \cup SynonymCharges

MaxLeaseCharges == 3

\* Lease-break charges of the three categories, above, at and below the
\* monthly rent, with and without the accelerated move-out flag, and unpaid
\* rent charges to go with them.
LeaseCharges ==
    {Charge("lease_break", "fee", Num(Dollars(300)), "unpaid", None, FALSE, FALSE),
     Charge("relisting_fee", "relisting", Num(Dollars(300)), "unpaid", None, TRUE, FALSE),
     Charge("Lease_Break_Fee ", "early exit", Num(Dollars(100)), "overdue", None, FALSE, FALSE),
     Charge("relisting_fee", "relisting", Num(Dollars(250)), "unpaid", None, FALSE, FALSE),
     Charge("unpaid_rent", "March", Num(Dollars(200)), "unpaid", None, FALSE, FALSE),
     Charge("unpaid_rent", "April", Num(Dollars(100)), "overdue", None, FALSE, FALSE)}

LeaseRents == {0, Dollars(250)}

MaxConserveCharges == 2

\* Charges of every branch of the loop: those that the caps split, and one
\* or two of each branch that approves or excludes in full.
ConserveCharges ==
    CapCharges
    \cup
    {Charge("cleaning", "carpet stain", Num(Dollars(100) + 3), "unpaid", "beyond", FALSE, FALSE),
     Charge("cleaning", "dusting", Num(Dollars(100)), "unpaid", None, FALSE, FALSE),
     Charge("normal_wear", "paint", Num(Dollars(100)), "unpaid", "normal", FALSE, FALSE),
     Charge("rekey", "rekey", <<"none">>, "unpaid", None, FALSE, FALSE),
     Charge("utilities", "bill", Num(Dollars(100)), "unpaid", None, FALSE, FALSE),
     Charge("relisting_fee", "fee", Num(Dollars(300)), "unpaid", None, TRUE, FALSE),
     Charge("lease_break_fee", "fee", Num(Dollars(100)), "unpaid", None, FALSE, FALSE),
     Charge("prorated_rent", "June", Num(Dollars(100)), "unpaid", None, FALSE, FALSE),
     Charge("prorated_rent", "June", Num(Dollars(100)), "unpaid", None, FALSE, TRUE),
     Charge(None, "painting", Num(Dollars(100)), "unpaid", None, FALSE, FALSE),
     Charge("unpaid_rent", "March", Num(Dollars(200)), Absent, None, FALSE, FALSE)}

MaxJurCharges == 2

JurCharges ==
    {Charge("unpaid_rent", "March", Num(Dollars(300)), "overdue", None, FALSE, FALSE)}

\* Requests that differ in jurisdiction and lease_state (neither given, one
\* of them, both), and besides in the documents, the move-out date and the
\* charges.
JurPayloads ==
  {p \in
    [tenant_name : {"Ana"},
     property_address : {"1 Elm St"},
     monthly_rent : {Dollars(250)},
     max_benefit : {Num(Dollars(150))},
     deposit_amount : {Num(Dollars(500))},
     jurisdiction : {None, "CA", "NY"},
     lease_state : {None, "TX"},
     move_out_date : {None, "2024-06-30"},
     documents_present : {[k \in SeqToSet(DocFields) |-> k \in K] : K \in {SeqToSet(REQ_DOCS), {}}},
     ledger_checks : {d \in AdjLedgers : d["first_month_rent_paid"]
                                          /\ d["first_month_sdi_premium_paid"]},
     charges : ListsOf(JurCharges, MaxJurCharges)] :
    <<p.jurisdiction, p.lease_state>>
        \in {<<None, None>>, <<"CA", None>>, <<None, "TX">>, <<"NY", "TX">>}}

\* The requests served side by side.
Requests == {"A", "B"}

MaxConcCharges == 2

\* Charges that consume the two running caps.
ConcCharges ==
    {Charge("landscaping", "mowing", Num(Dollars(300)), "unpaid", None, FALSE, FALSE),
     Charge("unpaid_rent", "March", Num(Dollars(200)), "overdue", None, FALSE, FALSE)}

\* Requests that pass the gate and are ready, pass and are not, or fail it.
ConcPayloads ==
    [tenant_name : {"Ana"},
     property_address : {"1 Elm St"},
     monthly_rent : {Dollars(250)},
     max_benefit : {Num(Dollars(400))},
     deposit_amount : {Num(Dollars(500))},
     jurisdiction : {"CA"},
     lease_state : {None},
     move_out_date : {None, "2024-06-30"},
     documents_present : {[k \in SeqToSet(DocFields) |-> k \in K] : K \in {SeqToSet(REQ_DOCS), {}}},
     ledger_checks : {d \in AdjLedgers : d["first_month_rent_paid"]
                                          /\ d["first_month_sdi_premium_paid"]},
     charges : ListsOf(ConcCharges, MaxConcCharges)]

\* A request slot that serves nothing yet.
NoFrame ==
    [pc |-> "idle", payload |-> None, i |-> 1, approved |-> <<>>, excluded |-> <<>>,
     landscaping_used |-> 0, rent_used |-> 0, total_approved |-> 0, response |-> None]

----------------------------------------------------------------------------
(* The call apply_policy_rules(charges, monthly_rent) *)

NoCall == [fn |-> "none"]

Init ==
    /\ call = NoCall
    /\ ret = None
    /\ pc = "idle"
    /\ charges = <<>>
    /\ monthly_rent = 0
    /\ i = 1
    /\ approved = <<>>
    /\ excluded = <<>>
    /\ landscaping_used = 0
    /\ rent_used = 0
    /\ total_approved = 0
    /\ frames = [r \in Requests |-> NoFrame]

\* Entry: the arguments are bound and the locals initialised.
Enter(D, n, R) ==
    /\ pc = "idle"
    /\ \E cs \in ListsOf(D, n), r \in R :
         /\ charges' = cs
         /\ monthly_rent' = r
    /\ i' = 1
    /\ approved' = <<>>
    /\ excluded' = <<>>
    /\ landscaping_used' = 0
    /\ rent_used' = 0
    /\ total_approved' = 0
    /\ pc' = "loop"
    /\ call' = [fn |-> "apply_policy_rules"]
    /\ UNCHANGED <<ret, frames>>

\* One iteration of the for loop.
Step ==
    /\ pc = "loop"
    /\ i <= Len(charges)
    /\ IF AmountRaises(charges[i])
       THEN \* float() raises ValueError: the call ends without a result
            /\ pc' = "raised"
            /\ UNCHANGED <<i, approved, excluded, landscaping_used, rent_used>>
       ELSE LET st == Body(charges[i], Locals, monthly_rent) IN
            /\ approved' = st.approved
            /\ excluded' = st.excluded
            /\ landscaping_used' = st.landscaping_used
            /\ rent_used' = st.rent_used
            /\ i' = i + 1
            /\ pc' = pc
    /\ UNCHANGED <<frames, call, ret, charges, monthly_rent, total_approved>>

\* The loop is over: the total is computed and the call returns.
Return ==
    /\ pc = "loop"
    /\ call.fn = "apply_policy_rules"
    /\ i > Len(charges)
    /\ total_approved' = TotalOf(approved)
    /\ pc' = "done"
    /\ UNCHANGED <<frames, call, ret, charges, monthly_rent, i, approved, excluded,
                   landscaping_used, rent_used>>

EnterRules == Enter(ClassCharges, MaxCharges, ClassRents)

Next == EnterRules \/ Step \/ Return

Spec == Init /\ [][Next]_vars

EnterCaps == Enter(CapCharges, MaxCapCharges, CapRents)

NextCaps == EnterCaps \/ Step \/ Return

SpecCaps == Init /\ [][NextCaps]_vars

EnterMalformed == Enter(MalformedCharges, MaxMalformed, ClassRents)

NextMalformed == EnterMalformed \/ Step \/ Return

SpecMalformed == Init /\ [][NextMalformed]_vars

EnterCategory == Enter(CategoryCharges, MaxCatCharges, ClassRents)

NextCategory == EnterCategory \/ Step \/ Return

SpecCategory == Init /\ [][NextCategory]_vars

EnterLease == Enter(LeaseCharges, MaxLeaseCharges, LeaseRents)

NextLease == EnterLease \/ Step \/ Return

SpecLease == Init /\ [][NextLease]_vars

EnterConserve == Enter(ConserveCharges, MaxConserveCharges, CapRents)

NextConserve == EnterConserve \/ Step \/ Return

SpecConserve == Init /\ [][NextConserve]_vars

----------------------------------------------------------------------------
(* The calls validate_gate(documents_present, ledger) and
   review_inputs_and_format_output(input_filenames, tenant_ledger_text) *)

RulesVars == <<charges, monthly_rent, i, approved, excluded,
               landscaping_used, rent_used, total_approved>>

ValidateGate ==
    /\ pc = "idle"
    /\ \E docs \in GateDocs, ledger \in GateLedgers :
         /\ call' = [fn |-> "validate_gate", documents_present |-> docs, ledger |-> ledger]
         /\ ret' = validate_gate(docs, ledger)
    /\ pc' = "done"
    /\ UNCHANGED <<RulesVars, frames>>

Review ==
    /\ pc = "idle"
    /\ \E files \in ReviewFiles, text \in ReviewTexts :
         /\ call' = [fn |-> "review_inputs_and_format_output",
                     input_filenames |-> files, tenant_ledger_text |-> text]
         /\ ret' = review_inputs_and_format_output(files, text)
    /\ pc' = "done"
    /\ UNCHANGED <<RulesVars, frames>>

NextGate == ValidateGate \/ Review

SpecGate == Init /\ [][NextGate]_vars

\* The call validate_gate(documents_present, ledger) of ledger_review.py.
LrValidateGate ==
    /\ pc = "idle"
    /\ \E docs \in GateDocs, ledger \in GateLedgers :
         /\ call' = [fn |-> "ledger_review.validate_gate",
                     documents_present |-> docs, ledger |-> ledger]
         /\ ret' = lr_validate_gate(docs, ledger)
    /\ pc' = "done"
    /\ UNCHANGED <<RulesVars, frames>>

NextGates == ValidateGate \/ LrValidateGate

SpecGates == Init /\ [][NextGates]_vars

----------------------------------------------------------------------------
(* The call finalize_payout(total_approved, max_benefit) *)

FinalizePayout ==
    /\ pc = "idle"
    /\ \E total \in PayoutAmounts, benefit \in PayoutBenefits :
         /\ call' = [fn |-> "finalize_payout", total_approved |-> total,
                     max_benefit |-> benefit]
         /\ ret' = finalize_payout(total, benefit)
    /\ pc' = "done"
    /\ UNCHANGED <<RulesVars, frames>>

NextPayout == FinalizePayout

SpecPayout == Init /\ [][NextPayout]_vars

----------------------------------------------------------------------------
(* The request POST /adjudicate *)

\* Entry: the gate is run; a failed gate returns the declined response,
\* a passed one enters apply_policy_rules.
AdjudicateEnter ==
    /\ pc = "idle"
    /\ \E payload \in AdjPayloads :
         LET gate == GateOf(payload) IN
         /\ call' = [fn |-> "adjudicate", payload |-> payload]
         /\ IF GateStops(gate[1])
            THEN /\ ret' = DeclinedResponse(payload, gate[2])
                 /\ pc' = "done"
                 /\ UNCHANGED <<RulesVars, frames>>
            ELSE /\ charges' = payload.charges
                 /\ monthly_rent' = payload.monthly_rent
                 /\ i' = 1
                 /\ approved' = <<>>
                 /\ excluded' = <<>>
                 /\ landscaping_used' = 0
                 /\ rent_used' = 0
                 /\ total_approved' = 0
                 /\ pc' = "loop"
                 /\ UNCHANGED <<ret, frames>>

\* apply_policy_rules has returned: readiness decides between the estimate
\* and the final payout.
AdjudicateReturn ==
    /\ pc = "loop"
    /\ call.fn = "adjudicate"
    /\ i > Len(charges)
    /\ LET payload == call.payload
           validation == GateOf(payload)[2]
           total == TotalOf(approved)
           readiness == payout_readiness(payload)
       IN  /\ total_approved' = total
           /\ ret' = IF ~readiness.ready
                     THEN EstimateResponse(payload, validation, approved, excluded,
                                           total, readiness)
                     ELSE FinalResponse(payload, validation, approved, excluded,
                                        total, readiness)
    /\ pc' = "done"
    /\ UNCHANGED <<frames, call, charges, monthly_rent, i, approved, excluded,
                   landscaping_used, rent_used>>

NextAdjudicate == AdjudicateEnter \/ Step \/ AdjudicateReturn

SpecAdjudicate == Init /\ [][NextAdjudicate]_vars

----------------------------------------------------------------------------
(* The call payout_readiness(payload) *)

PayoutReadiness ==
    /\ pc = "idle"
    /\ \E payload \in ReadinessPayloads :
         /\ call' = [fn |-> "payout_readiness", payload |-> payload]
         /\ ret' = payout_readiness(payload)
    /\ pc' = "done"
    /\ UNCHANGED <<RulesVars, frames>>

NextReadiness == PayoutReadiness

SpecReadiness == Init /\ [][NextReadiness]_vars

----------------------------------------------------------------------------
(* The call extract_ledger_flags(ledger_text) *)

ExtractLedgerFlags ==
    /\ pc = "idle"
    /\ \E text \in LedgerTexts :
         /\ call' = [fn |-> "extract_ledger_flags", ledger_text |-> text]
         /\ ret' = extract_ledger_flags(text)
    /\ pc' = "done"
    /\ UNCHANGED <<RulesVars, frames>>

NextLedger == ExtractLedgerFlags

SpecLedger == Init /\ [][NextLedger]_vars

----------------------------------------------------------------------------
(* The call detect_documents_present(input_filenames) *)

DetectDocumentsPresent ==
    /\ pc = "idle"
    /\ \E files \in StemLists :
         /\ call' = [fn |-> "detect_documents_present", input_filenames |-> files]
         /\ ret' = detect_documents_present(files)
    /\ pc' = "done"
    /\ UNCHANGED <<RulesVars, frames>>

NextDetect == DetectDocumentsPresent

SpecDetect == Init /\ [][NextDetect]_vars

----------------------------------------------------------------------------
(* Requests POST /adjudicate served side by side.  approved, excluded,
   landscaping_used and rent_used are locals of apply_policy_rules: each
   invocation has its own, in its own frame. *)

ScalarVars == <<call, ret, pc, charges, monthly_rent, i, approved, excluded,
                landscaping_used, rent_used, total_approved>>

\* The locals that carry on from the frame that has consumed most.
EntryLocals_Shared(fs) ==
    LET most == CHOOSE r \in DOMAIN fs :
                    \A q \in DOMAIN fs : fs[r].landscaping_used >= fs[q].landscaping_used
    IN  [Locals0 EXCEPT !.landscaping_used = fs[most].landscaping_used,
                        !.rent_used = fs[most].rent_used]

\* approved = [], excluded = [], landscaping_used = 0.0, rent_used = 0.0:
\* whatever the other frames hold.
EntryLocals(fs) == Locals0

\* The locals of a frame.
LocalsOf(fr) ==
    [approved |-> fr.approved, excluded |-> fr.excluded,
     landscaping_used |-> fr.landscaping_used, rent_used |-> fr.rent_used]

\* The request r comes in: gate, then declined response or entry of
\* apply_policy_rules.
ReqEnterOf(r, P) ==
    /\ frames[r].pc \in {"idle", "done"}
    /\ \E payload \in P :
         LET gate == GateOf(payload)
             locals == EntryLocals(frames)
         IN  frames' = [frames EXCEPT ![r] =
                 IF GateStops(gate[1])
                 THEN [NoFrame EXCEPT !.pc = "done", !.payload = payload,
                                      !.response = DeclinedResponse(payload, gate[2])]
                 ELSE [NoFrame EXCEPT !.pc = "loop", !.payload = payload,
                                      !.approved = locals.approved,
                                      !.excluded = locals.excluded,
                                      !.landscaping_used = locals.landscaping_used,
                                      !.rent_used = locals.rent_used]]
    /\ UNCHANGED ScalarVars

ReqEnter(r) == ReqEnterOf(r, ConcPayloads)

\* One iteration of the for loop of the request r.
ReqStep(r) ==
    LET fr == frames[r] IN
    /\ fr.pc = "loop"
    /\ fr.i <= Len(fr.payload.charges)
    /\ LET st == Body(fr.payload.charges[fr.i], LocalsOf(fr), fr.payload.monthly_rent)
       IN  frames' = [frames EXCEPT ![r] =
               [fr EXCEPT !.approved = st.approved, !.excluded = st.excluded,
                          !.landscaping_used = st.landscaping_used,
                          !.rent_used = st.rent_used, !.i = fr.i + 1]]
    /\ UNCHANGED ScalarVars

\* apply_policy_rules returns to the request r, which responds.
ReqReturn(r) ==
    LET fr == frames[r] IN
    /\ fr.pc = "loop"
    /\ fr.i > Len(fr.payload.charges)
    /\ LET payload == fr.payload
           validation == GateOf(payload)[2]
           total == TotalOf(fr.approved)
           readiness == payout_readiness(payload)
       IN  frames' = [frames EXCEPT ![r] =
               [fr EXCEPT !.pc = "done", !.total_approved = total,
                          !.response =
                             IF ~readiness.ready
                             THEN EstimateResponse(payload, validation, fr.approved,
                                                   fr.excluded, total, readiness)
                             ELSE FinalResponse(payload, validation, fr.approved,
                                                fr.excluded, total, readiness)]]
    /\ UNCHANGED ScalarVars

NextConc == \E r \in Requests : ReqEnter(r) \/ ReqStep(r) \/ ReqReturn(r)

SpecConc == Init /\ [][NextConc]_vars

ReqEnterJur(r) == ReqEnterOf(r, JurPayloads)

NextJur == \E r \in Requests : ReqEnterJur(r) \/ ReqStep(r) \/ ReqReturn(r)

SpecJur == Init /\ [][NextJur]_vars

----------------------------------------------------------------------------
(* Properties of apply_policy_rules *)

\* The charges the loop has processed so far.
Processed == SubSeq(charges, 1, i - 1)

\* Where the engine sends a charge: the filter or exclusion that stops it,
\* or its category after synonym normalization.
ClassOf(c) ==
    IF ~include_only_unpaid(c) THEN "<not unpaid>"
    ELSE IF HardExcluded(CatOf(c)) THEN "<policy exclusion>"
    ELSE IF NormalWearExcluded(CatOf(c), WearOf(c)) THEN "<normal wear>"
    ELSE Normalize(CatOf(c), DescOf(c))

\* ClassOf, tabulated over the charges a call may be given.
ClassTable == [c \in AnyCharge |-> ClassOf(c)]

LeaseBreakCats == {"lease_break", "relisting_fee", "lease_break_fee"}

NonNegative(cs) == \A k \in 1..Len(cs) : AmountOf(cs[k]) >= 0

RECURSIVE SumClass(_, _)
\* Sum of the amounts of the charges of cs that the engine classifies in cls.
SumClass(cs, cls) ==
    IF cs = <<>> THEN 0
    ELSE (IF ClassTable[cs[1]] \in cls THEN AmountOf(cs[1]) ELSE 0) + SumClass(Tail(cs), cls)

RECURSIVE SumReason(_, _)
\* Sum of the amounts of the tuples that carry the reason.
SumReason(tuples, reason) ==
    IF tuples = <<>> THEN 0
    ELSE (IF tuples[1][3] = reason THEN tuples[1][2] ELSE 0) + SumReason(Tail(tuples), reason)

RECURSIVE SumLabel(_, _)
\* Sum of the amounts of the tuples whose label starts with the prefix.
SumLabel(tuples, prefix) ==
    IF tuples = <<>> THEN 0
    ELSE (IF StartsWith(tuples[1][1], prefix) THEN tuples[1][2] ELSE 0)
         + SumLabel(Tail(tuples), prefix)

RECURSIVE LeaseBreakExcess(_, _)
\* What the lease-break charges of cs leave over one month rent each.
LeaseBreakExcess(cs, rent) ==
    IF cs = <<>> THEN 0
    ELSE (IF ClassTable[cs[1]] \in LeaseBreakCats /\ ~cs[1].accelerated_moveout
          THEN AmountOf(cs[1]) - Min(AmountOf(cs[1]), rent) ELSE 0)
         + LeaseBreakExcess(Tail(cs), rent)

\* C1: with non-negative amounts, the amounts approved with reason
\* "Capped at $500" sum to min(S, 500), S being the sum of the charges the
\* engine classifies as landscaping, so they never exceed 500; the remainder
\* S - min(S, 500) is excluded with reason "Over $500 cap".  It holds after
\* every iteration, for the charges processed so far.
C1_LandscapingCap ==
    (pc \in {"loop", "done"} /\ NonNegative(Processed)) =>
        LET S == SumClass(Processed, {"landscaping"}) IN
        /\ SumReason(approved, "Capped at $500") = Min(S, Dollars(500))
        /\ SumReason(approved, "Capped at $500") <= Dollars(500)
        /\ SumReason(excluded, "Over $500 cap") = S - Min(S, Dollars(500))

\* C1 witness: a finished call in which several landscaping charges, one of
\* them by its description only, exceed the cap together: the last one
\* approved is split.
C1_Witness ==
    /\ pc = "done"
    /\ NonNegative(charges)
    /\ SumClass(charges, {"landscaping"}) > Dollars(500)
    /\ Cardinality({k \in 1..Len(approved) : approved[k][3] = "Capped at $500"}) >= 2
    /\ \E k \in 1..Len(charges) :
          ClassOf(charges[k]) = "landscaping" /\ CatOf(charges[k]) # "landscaping"
    /\ \E k \in 1..Len(excluded) :
          excluded[k][3] = "Over $500 cap" /\ excluded[k][2] < Dollars(300)

\* The amount the k-th charge of the call adds to the approved list.
ApprovedFor(k) ==
    SumAmounts(RunTo(charges, monthly_rent, k).approved)
    - SumAmounts(RunTo(charges, monthly_rent, k - 1).approved)

RECURSIVE SumGivenRent(_)
\* Sum of the amounts of the unpaid/overdue charges given as unpaid_rent.
SumGivenRent(cs) ==
    IF cs = <<>> THEN 0
    ELSE (IF include_only_unpaid(cs[1]) /\ CatOf(cs[1]) = "unpaid_rent"
          THEN AmountOf(cs[1]) ELSE 0) + SumGivenRent(Tail(cs))

RECURSIVE SumApprovedGivenRent(_)
\* What the first k charges that are given as unpaid_rent get approved.
SumApprovedGivenRent(k) ==
    IF k = 0 THEN 0
    ELSE (IF include_only_unpaid(charges[k]) /\ CatOf(charges[k]) = "unpaid_rent"
          THEN ApprovedFor(k) ELSE 0) + SumApprovedGivenRent(k - 1)

\* C2 as stated: with non-negative amounts and monthly_rent >= 0, the total
\* approved for the unpaid/overdue charges whose category is unpaid_rent,
\* whatever their descriptions, is min(S, monthly_rent).
C2_AsStated ==
    (pc = "done" /\ NonNegative(charges) /\ monthly_rent >= 0) =>
        /\ approved = RunTo(charges, monthly_rent, Len(charges)).approved
        /\ SumApprovedGivenRent(Len(charges))
              = Min(SumGivenRent(charges), monthly_rent)

\* C2 amended: with non-negative amounts and monthly_rent >= 0, the amounts
\* approved as "Unpaid Rent" sum to min(S, monthly_rent), S being the sum of
\* the charges still classified as unpaid_rent after synonym normalization;
\* they never exceed monthly_rent, and the excess is excluded with reason
\* "Over one month rent", the reason the lease-break remainders carry too.
C2_RentCap ==
    (pc \in {"loop", "done"} /\ NonNegative(Processed) /\ monthly_rent >= 0) =>
        LET S == SumClass(Processed, {"unpaid_rent"}) IN
        /\ SumLabel(approved, "Unpaid Rent - ") = Min(S, monthly_rent)
        /\ SumLabel(approved, "Unpaid Rent - ") <= monthly_rent
        /\ SumReason(excluded, "Over one month rent")
              = (S - Min(S, monthly_rent)) + LeaseBreakExcess(Processed, monthly_rent)

\* C2 witness: a finished call in which two unpaid_rent charges exceed a
\* positive monthly rent together, the second one being split.
C2_Witness ==
    /\ pc = "done"
    /\ NonNegative(charges)
    /\ monthly_rent > 0
    /\ SumClass(charges, {"unpaid_rent"}) > monthly_rent
    /\ Cardinality({k \in 1..Len(approved) : StartsWith(approved[k][1], "Unpaid Rent - ")}) >= 2
    /\ \E k \in 1..Len(excluded) : excluded[k][3] = "Over one month rent"

\* C7: the returned total is the sum, rounded to 2 places, of the amounts of
\* exactly the tuples of the returned approved list: each amount is counted
\* as capped, and no excluded amount is counted.
C7_TotalIsSumOfApproved ==
    pc = "done" =>
        total_approved = Round2(SumAmounts(approved))

\* C7 witness: a finished call with a capped approved tuple, an excluded
\* remainder and an approved sum that is not a whole number of cents.
C7_Witness ==
    /\ pc = "done"
    /\ Len(approved) >= 2
    /\ \E k \in 1..Len(excluded) : excluded[k][3] = "Over $500 cap" /\ excluded[k][2] > 0
    /\ SumAmounts(approved) % 5 # 0
    /\ total_approved # SumAmounts(approved)

\* The loop is about to process the charge c.
AtCharge(c) == pc = "loop" /\ i <= Len(charges) /\ c = charges[i]

\* C8: a charge whose status, lower-cased, is neither unpaid nor overdue (an
\* absent status included) adds to excluded the single tuple of its full
\* amount with reason "Paid/Not overdue", is not approved, and leaves both
\* running caps as they are, whatever its category, description, wear and
\* flags.
C8_PaymentStatusFilter ==
    [][\A c \in AnyCharge :
        (AtCharge(c) /\ (c.status = Absent \/ Lower(c.status) \notin {"unpaid", "overdue"}))
        => /\ approved' = approved
           /\ excluded' = Append(excluded,
                  <<IF c.description = Absent THEN "" ELSE c.description,
                    AmountOf(c), "Paid/Not overdue">>)
           /\ landscaping_used' = landscaping_used
           /\ rent_used' = rent_used]_vars

\* C8 witness: a finished call in which a charge without status, of a capped
\* category, came after an approved charge of that category and was
\* excluded as "Paid/Not overdue".
C8_Witness ==
    /\ pc = "done"
    /\ Len(charges) = 2
    /\ ClassOf(charges[1]) = "landscaping"
    /\ charges[2].status = Absent /\ CatOf(charges[2]) = "landscaping"
    /\ Len(approved) = 1
    /\ excluded = <<<<charges[2].description, AmountOf(charges[2]), "Paid/Not overdue">>>>
    /\ landscaping_used = AmountOf(charges[1])

\* C9: an unpaid/overdue charge whose category after normalization is
\* cleaning is approved in full with reason "Beyond normal wear and tear"
\* iff its wear is "beyond", or its wear is absent or empty and its
\* description contains a damage hint, and is excluded in full otherwise; a
\* cleaning charge with wear "normal" is excluded with reason "Normal wear
\* and tear" whatever its description.
C9_Cleaning ==
    [][\A c \in AnyCharge :
        /\ (AtCharge(c) /\ ClassTable[c] = "cleaning") =>
              IF \/ WearOf(c) = "beyond"
                 \/ (WearOf(c) = "" /\ AnyIn(DAMAGE_HINTS, Lower(DescOf(c))))
              THEN /\ approved' = Append(approved,
                          <<"Cleaning - " \o DescOf(c), AmountOf(c),
                            "Beyond normal wear and tear">>)
                   /\ excluded' = excluded
              ELSE /\ approved' = approved
                   /\ excluded' = Append(excluded,
                          <<DescOf(c), AmountOf(c), "Unspecified/normal wear">>)
        /\ (AtCharge(c) /\ include_only_unpaid(c) /\ CatOf(c) = "cleaning"
                /\ WearOf(c) = "normal") =>
              /\ approved' = approved
              /\ excluded' = Append(excluded,
                     <<DescOf(c), AmountOf(c), "Normal wear and tear">>)]_vars

\* C9 witness: a finished call that approved a cleaning charge on its damage
\* hint alone and excluded a cleaning charge of wear "normal" whose
\* description holds a damage hint.
C9_Witness ==
    /\ pc = "done"
    /\ Len(charges) = 2
    /\ ClassOf(charges[1]) = "cleaning" /\ WearOf(charges[1]) = ""
    /\ Len(approved) = 1 /\ approved[1][3] = "Beyond normal wear and tear"
    /\ CatOf(charges[2]) = "cleaning" /\ WearOf(charges[2]) = "normal"
    /\ _looks_beyond_wear(DescOf(charges[2]))
    /\ Len(excluded) = 1 /\ excluded[1][3] = "Normal wear and tear"

----------------------------------------------------------------------------
(* Properties of the gate *)

RequiredKinds == {"lease_addendum", "lease_agreement", "notification_to_tenant", "tenant_ledger"}

\* The key k of the dict d holds a true value.
Holds(d, k) == k \in DOMAIN d /\ d[k]

\* C3: validate_gate approves iff the four required kinds are present and
\* both first-month flags are true; Status is "Approved" exactly when it
\* approves and "Declined" otherwise; the optional kinds have no influence:
\* the result is that of the call without them.
C3_GateVerdict ==
    call.fn = "validate_gate" =>
        LET docs == call.documents_present
            ledger == call.ledger
            required == [k \in DOMAIN docs \cap RequiredKinds |-> docs[k]]
        IN  /\ ret[1] <=> /\ \A d \in RequiredKinds : Holds(docs, d)
                          /\ Holds(ledger, "first_month_rent_paid")
                          /\ Holds(ledger, "first_month_sdi_premium_paid")
            /\ ret[2]["Status"] = (IF ret[1] THEN "Approved" ELSE "Declined")
            /\ ret[2]["Status"] \in {"Approved", "Declined"}
            /\ ret = validate_gate(required, ledger)

\* C3 witness: the gate approved a call whose optional documents are absent
\* or false.
C3_Witness ==
    /\ call.fn = "validate_gate"
    /\ ret[1]
    /\ ret[2]["Status"] = "Approved"
    /\ ~Holds(call.documents_present, "invoice")
    /\ "claim_evaluation_report" \notin DOMAIN call.documents_present

\* The list is in strictly increasing lexicographic order.
Increasing(seq) == \A k \in 1..(Len(seq) - 1) : StrLess(seq[k], seq[k + 1])

\* The summary a formatted review ends with.
SummaryOf(formatted) ==
    LET marker == "* Summary of decision: "
        at(j) == SubSeq(formatted, j, j + Len(marker) - 1) = marker
        last == Len(formatted) - Len(marker) + 1
        j == CHOOSE j \in 1..last : at(j) /\ \A k \in (j + 1)..last : ~at(k)
    IN  SubSeq(formatted, j + Len(marker), Len(formatted))

\* C10: validate_gate reports every unmet condition together: "Missing
\* documents" lists, in lexicographic order, exactly the required kinds that
\* are absent or false, never an optional kind, and the two ledger flags are
\* reported with their own values whatever else has failed; the decline
\* summary of review_inputs_and_format_output names each unmet condition:
\* every missing file, the rent, the SDI premium.
C10_AllUnmetReported ==
    /\ call.fn = "validate_gate" =>
          LET docs == call.documents_present
              details == ret[2]
          IN  /\ Increasing(details["Missing documents"])
              /\ SeqToSet(details["Missing documents"])
                    = {d \in RequiredKinds : ~Holds(docs, d)}
              /\ details["First Month Paid"] = Holds(call.ledger, "first_month_rent_paid")
              /\ details["First Month SDI Premium Paid"]
                    = Holds(call.ledger, "first_month_sdi_premium_paid")
    /\ call.fn = "review_inputs_and_format_output" =>
          LET details == ret[2]
              summary == SummaryOf(ret[3])
              stems == {Strip(Lower(call.input_filenames[k])) :
                           k \in 1..Len(call.input_filenames)}
          IN  /\ Increasing(details["Missing documents"])
              /\ SeqToSet(details["Missing documents"]) = RequiredKinds \ stems
              /\ ~ret[1] =>
                    /\ details["Status"] = "Declined"
                    /\ \A d \in RequiredKinds \ stems : Contains(summary, d)
                    /\ Contains(summary, "Missing required file(s): ")
                          <=> RequiredKinds \ stems # {}
                    /\ Contains(summary, "First-month rent not found in ledger.")
                          <=> ~details["First Month Paid"]
                    /\ Contains(summary, "First-month SDI premium not found in ledger.")
                          <=> ~details["First Month SDI Premium Paid"]

\* C10 witness: a declined review with two missing files, no rent and no SDI
\* premium in the ledger, all of them named in the summary.
C10_Witness ==
    /\ call.fn = "review_inputs_and_format_output"
    /\ ~ret[1]
    /\ Len(ret[2]["Missing documents"]) = 2
    /\ ~ret[2]["First Month Paid"]
    /\ ~ret[2]["First Month SDI Premium Paid"]
    /\ SummaryOf(ret[3]) = "Missing required file(s): lease_addendum, tenant_ledger "
            \o "First-month rent not found in ledger. "
            \o "First-month SDI premium not found in ledger."

----------------------------------------------------------------------------
(* Properties of finalize_payout *)

Abs(x) == IF x >= 0 THEN x ELSE 0 - x

\* The amount is a whole number of cents.
WholeCents(x) == x % 5 = 0

----------------------------------------------------------------------------
(* Properties of POST /adjudicate *)

\* The fields readiness asks for, in the order it reports them.
ReadinessFields == <<"deposit_amount", "move_out_date", "jurisdiction">>

\* The jurisdiction of the payload, or else its lease state.
EffectiveJurisdiction(payload) ==
    IF payload.jurisdiction \in {None, ""} THEN payload.lease_state ELSE payload.jurisdiction

\* The readiness field f has no usable value in the payload.
Lacks(payload, f) ==
    CASE f = "deposit_amount" -> payload.deposit_amount \in {<<"none">>, Num(0)}
      [] f = "move_out_date" -> payload.move_out_date = None
      [] f = "jurisdiction" -> EffectiveJurisdiction(payload) \in {None, ""}

\* C4: a failed gate is terminal: the step on which the handler takes a
\* request that validate_gate does not approve ends the request with the
\* declined response, whatever the charges, rent, benefit and readiness
\* fields: final_payout_available false, status "Declined", no approved and
\* no excluded charge, both amounts 0.0, no missing field and no jurisdiction
\* reported, and the rules engine never entered.
C4_GateFailureTerminal ==
    [][(call'.fn = "adjudicate" /\ ~GateOf(call'.payload)[1]) =>
          /\ pc = "idle" /\ pc' = "done"
          /\ ret'.validation = GateOf(call'.payload)[2]
          /\ ret'.validation["Status"] = "Declined"
          /\ ret'.final_payout_available = FALSE
          /\ ret'.missing_fields = <<>>
          /\ "jurisdiction_used" \notin DOMAIN ret'
          /\ ret'.output_template["Assessment Status"] = "Declined"
          /\ ret'.output_template["Approved Charges"] = <<>>
          /\ ret'.output_template["Excluded Charges"] = <<>>
          /\ ret'.output_template["Total Approved Charges"] = 0
          /\ ret'.output_template["Final Payout Based on Coverage"] = 0
          /\ ret'.summary_of_decision = "Required gate(s) failed. Declined per policy."
          /\ UNCHANGED RulesVars
          /\ approved' = <<>> /\ excluded' = <<>> /\ total_approved' = 0]_vars

\* C4 witness: a request declined on the SDI premium alone, with every
\* document, every readiness field, a benefit of 1000 and two charges that
\* the engine would approve.
C4_Witness ==
    /\ call.fn = "adjudicate" /\ pc = "done"
    /\ ~GateOf(call.payload)[1]
    /\ ret.validation["Missing documents"] = <<>>
    /\ ret.validation["First Month Paid"]
    /\ ~ret.validation["First Month SDI Premium Paid"]
    /\ payout_readiness(call.payload).ready
    /\ call.payload.max_benefit = Num(Dollars(1000))
    /\ Len(call.payload.charges) = 2
    /\ \A k \in 1..2 : ClassOf(call.payload.charges[k]) \in {"cleaning", "unpaid_rent"}
    /\ ~ret.final_payout_available
    /\ ret.output_template["Approved Charges"] = <<>>
    /\ ret.output_template["Final Payout Based on Coverage"] = 0

\* C5: with the gate approved, final_payout_available holds iff no readiness
\* field is lacking.  Both outcomes report the engine's approved and
\* excluded charges and its total; the estimate reports a final payout of
\* 0.0 and the lacking fields; the final one reports
\* finalize_payout(total, max_benefit), no missing field and the effective
\* jurisdiction.  A response with a non-zero final payout is a final one.
C5_FinalOnlyWhenReady ==
    (call.fn = "adjudicate" /\ pc = "done") =>
        LET payload == call.payload
            template == ret.output_template
            lacking == SelectSeq(ReadinessFields, LAMBDA f : Lacks(payload, f))
            st == RunTo(payload.charges, payload.monthly_rent, Len(payload.charges))
            total == TotalOf(st.approved)
        IN  /\ template["Final Payout Based on Coverage"] # 0 =>
                  /\ ret.final_payout_available
                  /\ GateOf(payload)[1]
            /\ GateOf(payload)[1] =>
                  /\ ret.final_payout_available <=> lacking = <<>>
                  /\ template["Assessment Status"] = "Approved"
                  /\ template["Approved Charges"] = Items(st.approved)
                  /\ template["Excluded Charges"] = Items(st.excluded)
                  /\ template["Total Approved Charges"] = total
                  /\ total = total_approved
                  /\ lacking # <<>> =>
                        /\ template["Final Payout Based on Coverage"] = 0
                        /\ ret.missing_fields = lacking
                        /\ "jurisdiction_used" \notin DOMAIN ret
                  /\ lacking = <<>> =>
                        /\ template["Final Payout Based on Coverage"]
                              = finalize_payout(total, payload.max_benefit)
                        /\ ret.missing_fields = <<>>
                        /\ ret.jurisdiction_used = EffectiveJurisdiction(payload)

\* C5 witness: a final response on the lease state as jurisdiction, whose
\* total of 350.01 is clipped to the benefit of 150.
C5_Witness ==
    /\ call.fn = "adjudicate" /\ pc = "done"
    /\ ret.final_payout_available
    /\ call.payload.jurisdiction = ""
    /\ ret.jurisdiction_used = "TX"
    /\ ret.missing_fields = <<>>
    /\ Len(ret.output_template["Approved Charges"]) = 2
    /\ ret.output_template["Total Approved Charges"] = Dollars(350) + 5
    /\ ret.output_template["Final Payout Based on Coverage"] = Dollars(150)

----------------------------------------------------------------------------
(* Properties of payout_readiness *)

\* C11: effective_jurisdiction is the jurisdiction when it has a value and
\* the lease state otherwise; missing lists, in the order deposit_amount,
\* move_out_date, jurisdiction, exactly the fields that are absent or falsy,
\* the jurisdiction judged on the effective one; ready iff missing is empty.
C11_Readiness ==
    call.fn = "payout_readiness" =>
        LET payload == call.payload IN
        /\ ret.effective_jurisdiction
              = (IF payload.jurisdiction \in {None, ""} THEN payload.lease_state
                 ELSE payload.jurisdiction)
        /\ ret.missing = SelectSeq(ReadinessFields, LAMBDA f : Lacks(payload, f))
        /\ ret.ready <=> ret.missing = <<>>
        /\ (payload.lease_state \notin {None, ""}) => "jurisdiction" \notin SeqToSet(ret.missing)

\* C11 witness: a payload with no jurisdiction, ready on its lease state.
C11_Witness ==
    /\ call.fn = "payout_readiness"
    /\ call.payload.jurisdiction = None
    /\ call.payload.lease_state = "TX"
    /\ ret.ready
    /\ ret.missing = <<>>
    /\ ret.effective_jurisdiction = "TX"

----------------------------------------------------------------------------
(* Properties of extract_ledger_flags *)

\* The least element of a non-empty set of numbers.
Least(S) == CHOOSE j \in S : \A k \in S : j <= k

\* The non-empty lines of the text, trimmed.
LinesOf(text) == StripAll(SplitLines(IF text = None THEN "" ELSE text))

\* The lines that hold a hint, and those that hold it with an amount or a
\* payment word.
Hinted(lines, hints) == {k \in 1..Len(lines) : _line_matches(lines[k], hints)}
Corroborated(lines, hints) ==
    {k \in Hinted(lines, hints) :
        _search_money(lines[k]) \/ _line_matches(lines[k], PAID_HINTS)}

\* The flag and the evidence of one kind of hint, over all the lines.
FlagOf(lines, hints) == Hinted(lines, hints) # {}
EvidenceOf(lines, hints) ==
    IF Corroborated(lines, hints) # {}
    THEN _normalize_text(lines[Least(Corroborated(lines, hints))])
    ELSE IF Hinted(lines, hints) # {}
    THEN _normalize_text(lines[Least(Hinted(lines, hints))])
    ELSE ""

\* C12: for rent and for SDI independently, the flag holds iff some
\* non-empty line holds a hint of the kind; the evidence is the first line
\* that holds the hint with an amount or a payment word when there is one,
\* and else the first line that holds the hint; it is empty exactly when the
\* flag is false.  All of it is over the whole text, wherever the strict
\* scan stopped.
C12_TwoPhaseScan ==
    call.fn = "extract_ledger_flags" =>
        LET lines == LinesOf(call.ledger_text) IN
        /\ ret["first_month_rent_paid"] = FlagOf(lines, RENT_HINTS)
        /\ ret["first_month_rent_evidence"] = EvidenceOf(lines, RENT_HINTS)
        /\ ret["first_month_sdi_premium_paid"] = FlagOf(lines, SDI_HINTS)
        /\ ret["first_month_sdi_premium_paid_evidence"] = EvidenceOf(lines, SDI_HINTS)
        /\ ret["first_month_rent_evidence"] = "" <=> ~ret["first_month_rent_paid"]
        /\ ret["first_month_sdi_premium_paid_evidence"] = ""
              <=> ~ret["first_month_sdi_premium_paid"]

\* C12 witness: the rent is first mentioned bare and then with a payment,
\* the SDI premium only bare: the rent evidence is the second line, the SDI
\* evidence comes from the fallback.
C12_Witness ==
    /\ call.fn = "extract_ledger_flags"
    /\ call.ledger_text = "rent due\nRent: $1200 paid\nsecurity deposit insurance"
    /\ ret["first_month_rent_paid"]
    /\ ret["first_month_rent_evidence"] = "Rent: $1200 paid"
    /\ ret["first_month_sdi_premium_paid"]
    /\ ret["first_month_sdi_premium_paid_evidence"] = "security deposit insurance"

----------------------------------------------------------------------------
(* Properties of detect_documents_present *)

SixKinds ==
    {"lease_addendum", "lease_agreement", "notification_to_tenant", "tenant_ledger",
     "invoice", "claim_evaluation_report"}

\* C13: each of the six kinds is reported, and reported present iff some
\* submitted stem is its identifier once lower-cased and trimmed; stems that
\* only hold an identifier make no kind present, and the empty list gives
\* false for the six kinds.
C13_ExactMatch ==
    call.fn = "detect_documents_present" =>
        LET files == call.input_filenames IN
        /\ DOMAIN ret = SixKinds
        /\ \A kind \in SixKinds :
              ret[kind] <=> \E j \in 1..Len(files) : Strip(Lower(files[j])) = kind
        /\ (\A j \in 1..Len(files) : files[j] \in {"lease_addendum_v2", "my invoice", ""})
              => \A kind \in SixKinds : ~ret[kind]
        /\ files = <<>> => \A kind \in SixKinds : ~ret[kind]

\* C13 witness: lease_addendum_v2 beside a lease agreement in other case:
\* the agreement is present, the addendum is not.
C13_Witness ==
    /\ call.fn = "detect_documents_present"
    /\ call.input_filenames = <<"lease_addendum_v2", " Lease_Agreement">>
    /\ ret["lease_agreement"]
    /\ ~ret["lease_addendum"]
    /\ \A kind \in SixKinds \ {"lease_agreement"} : ~ret[kind]

----------------------------------------------------------------------------
(* Properties of requests served side by side *)

\* The response to a request served alone, from idle to done.
ServedAlone(payload) ==
    LET gate == GateOf(payload)
        st == RunTo(payload.charges, payload.monthly_rent, Len(payload.charges))
        total == TotalOf(st.approved)
        readiness == payout_readiness(payload)
    IN  IF ~gate[1] THEN DeclinedResponse(payload, gate[2])
        ELSE IF ~readiness.ready
        THEN EstimateResponse(payload, gate[2], st.approved, st.excluded, total, readiness)
        ELSE FinalResponse(payload, gate[2], st.approved, st.excluded, total, readiness)

\* C14: the running caps are local to one invocation: whatever the other
\* requests do and whatever was served before in the same slot, the locals
\* of a request in its loop are those of its own charges processed so far
\* from landscaping_used = rent_used = 0, and its result and response are
\* those of the same request served alone.
C14_CapsAreLocal ==
    \A r \in Requests :
        LET fr == frames[r] IN
        /\ fr.pc = "loop" =>
              LocalsOf(fr) = RunTo(fr.payload.charges, fr.payload.monthly_rent, fr.i - 1)
        /\ (fr.pc = "loop" /\ fr.i = 1) =>
              fr.landscaping_used = 0 /\ fr.rent_used = 0
        /\ fr.pc = "done" =>
              /\ fr.response = ServedAlone(fr.payload)
              /\ GateOf(fr.payload)[1] =>
                    LET st == RunTo(fr.payload.charges, fr.payload.monthly_rent,
                                    Len(fr.payload.charges))
                    IN  /\ LocalsOf(fr) = st
                        /\ fr.total_approved = TotalOf(st.approved)

\* C14 witness: A has finished two landscaping charges and used up the $500
\* cap; B, on the same input, is after its first charge with 300 used.
C14_Witness ==
    /\ frames["A"].pc = "done"
    /\ frames["A"].landscaping_used = Dollars(500)
    /\ Len(frames["A"].excluded) = 1
    /\ frames["B"].pc = "loop"
    /\ frames["B"].payload = frames["A"].payload
    /\ frames["B"].i = 2
    /\ frames["B"].landscaping_used = Dollars(300)
    /\ frames["B"].excluded = <<>>

----------------------------------------------------------------------------
(* Properties of apply_policy_rules on malformed charges *)

\* The amount of the charge is missing, None or a str.
Malformed(c) == c.amount[1] \in {"absent", "none", "str"}

\* C15 as stated: the call never raises on a malformed amount; when it is
\* over, every charge has been classified, and a charge whose amount is
\* missing, None or not a number is reported with amount 0.
C15_NeverRaises ==
    /\ pc # "raised"
    /\ (call.fn = "apply_policy_rules" /\ pc = "done") =>
          /\ Len(approved) + Len(excluded) = Len(charges)
          /\ \A k \in 1..Len(charges) :
                (Malformed(charges[k]) /\ charges[k].amount # <<"str", " 12.50 ">>) =>
                    \E t \in SeqToSet(approved \o excluded) : t[2] = 0

\* The call has raised on the amount "N/A" after it has processed a
\* well-formed charge, whose result is lost.
C15_Raised ==
    /\ call.fn = "apply_policy_rules"
    /\ pc = "raised"
    /\ i = 2
    /\ charges[2].amount = <<"str", "N/A">>
    /\ Len(approved) = 1

----------------------------------------------------------------------------
(* Properties of apply_policy_rules on categories *)

\* The loop is at a charge that passes the status filter.
AtUnpaid == pc = "loop" /\ i <= Len(charges) /\ include_only_unpaid(charges[i])

\* The charge has no category: the key is missing, None or empty.
NoCategory(c) == c.category \in {Absent, None, ""}

\* This step excludes the charge in full for the reason given and changes
\* nothing else.
ExcludedInFull(c, reason) ==
    /\ excluded' = Append(excluded, <<DescOf(c), AmountOf(c), reason>>)
    /\ approved' = approved
    /\ landscaping_used' = landscaping_used
    /\ rent_used' = rent_used

\* C16 as stated: an unpaid/overdue charge without category is excluded as
\* unknown whatever its description, never approved, and consumes no cap.
C16_AsStated ==
    [][(AtUnpaid /\ NoCategory(charges[i])) =>
          ExcludedInFull(charges[i], "Unknown category (exclude)")]_vars

\* C16: an unpaid/overdue charge without category is excluded as unknown,
\* never approved and consumes no cap, when its description holds no rekey,
\* landscaping or utility synonym; when it holds one, the charge takes that
\* category: it is approved as a rekey or as utilities in full, or as
\* landscaping under the $500 cap, which it consumes.
C16_NoCategory ==
    [][(AtUnpaid /\ NoCategory(charges[i])) =>
          LET c == charges[i]
              desc == DescOf(c)
              text == Lower(desc)
              amt == AmountOf(c)
          IN  IF AnyIn(REKEY_SYNONYMS, text)
              THEN /\ approved' = Append(approved, <<"Rekey - " \o desc, amt, "Move-out rekey">>)
                   /\ excluded' = excluded
                   /\ landscaping_used' = landscaping_used /\ rent_used' = rent_used
              ELSE IF AnyIn(LANDSCAPE_SYNONYMS, text)
              THEN /\ landscaping_used' = Min(LandscapeLimit, landscaping_used + Max(amt, 0))
                   /\ SumAmounts(approved') - SumAmounts(approved)
                          = landscaping_used' - landscaping_used
                   /\ rent_used' = rent_used
              ELSE IF AnyIn(UTIL_SYNONYMS, text)
              THEN /\ approved' = Append(approved, <<"Unpaid Utilities - " \o desc, amt, "Covered">>)
                   /\ excluded' = excluded
                   /\ landscaping_used' = landscaping_used /\ rent_used' = rent_used
              ELSE ExcludedInFull(c, "Unknown category (exclude)")]_vars

\* C16 witness: of two charges without category, the locksmith visit has
\* been approved as a rekey and the painting excluded as unknown.
C16_Witness ==
    /\ call.fn = "apply_policy_rules" /\ pc = "done"
    /\ Len(charges) = 2
    /\ NoCategory(charges[1]) /\ NoCategory(charges[2])
    /\ approved = <<<<"Rekey - locksmith visit", Dollars(300), "Move-out rekey">>>>
    /\ excluded = <<<<"painting", Dollars(300), "Unknown category (exclude)">>>>


\* C17: an unpaid/overdue charge whose given category, lower-cased and
\* trimmed, is non_refundable_fee, benefit_program, pet_damage or lawn_vacant
\* is excluded with its full amount and the reason "Policy exclusion",
\* whatever its description, wear and flags: it is not re-categorized, not
\* approved, and both running caps stay as they are.
C17_HardExclusionFirst ==
    [][(/\ AtUnpaid
        /\ CatOf(charges[i]) \in {"non_refundable_fee", "benefit_program",
                                   "pet_damage", "lawn_vacant"}) =>
          ExcludedInFull(charges[i], "Policy exclusion")]_vars

\* C17 witness: a lawn_vacant charge described as "lawn water" and a
\* pet_damage charge described as "locksmith" have both been excluded by
\* policy, with nothing approved and no cap consumed.
C17_Witness ==
    /\ call.fn = "apply_policy_rules" /\ pc = "done"
    /\ Len(charges) = 2
    /\ CatOf(charges[1]) = "lawn_vacant" /\ CatOf(charges[2]) = "pet_damage"
    /\ excluded = <<<<"lawn water", Dollars(300), "Policy exclusion">>,
                    <<"locksmith", Dollars(300), "Policy exclusion">>>>
    /\ approved = <<>>
    /\ landscaping_used = 0 /\ rent_used = 0

----------------------------------------------------------------------------
(* Properties of apply_policy_rules on lease-break charges *)

IsLeaseBreak(c) == ClassOf(c) \in LeaseBreakCats

\* What the k-th charge of cs added to approved and to excluded.
Delta(cs, rent, k) ==
    LET a == RunTo(cs, rent, k - 1)
        b == RunTo(cs, rent, k)
    IN  [approved |-> SubSeq(b.approved, Len(a.approved) + 1, Len(b.approved)),
         excluded |-> SubSeq(b.excluded, Len(a.excluded) + 1, Len(b.excluded))]

\* The list without its lease-break charges, and the place the k-th charge
\* takes in it.
WithoutLeaseBreak(cs) == SelectSeq(cs, LAMBDA c : ~IsLeaseBreak(c))

PlaceWithout(cs, k) == k - Cardinality({j \in 1..(k - 1) : IsLeaseBreak(cs[j])})

\* Each unpaid_rent charge of the list gets the approved and excluded
\* tuples it gets in the list without the lease-break charges.
RentUnaffected ==
    \A k \in 1..Len(charges) :
        ClassOf(charges[k]) = "unpaid_rent" =>
            Delta(charges, monthly_rent, k)
                = Delta(WithoutLeaseBreak(charges), monthly_rent,
                        PlaceWithout(charges, k))

\* C18: a step on a lease-break charge (lease_break, relisting_fee,
\* lease_break_fee) leaves rent_used as it is and does not depend on it:
\* with accelerated_moveout the full amount is approved with the reason
\* "Exception: accelerated move-out"; otherwise min(amount, monthly_rent) is
\* approved and the remainder, if any, is excluded with the reason "Over one
\* month rent". In a finished call the unpaid_rent charges have the approved
\* and excluded tuples they have in the list without the lease-break charges.
C18_LeaseBreakApart ==
    /\ []((pc = "done" /\ call.fn = "apply_policy_rules") => RentUnaffected)
    /\ [][(AtUnpaid /\ IsLeaseBreak(charges[i])) =>
            LET c == charges[i]
                desc == DescOf(c)
                amt == AmountOf(c)
                cap == Min(amt, monthly_rent)
            IN  /\ rent_used' = rent_used
                /\ landscaping_used' = landscaping_used
                /\ IF c.accelerated_moveout
                   THEN /\ approved' = Append(approved,
                              <<"Lease Break Fee (Accelerated) - " \o desc, amt,
                                "Exception: accelerated move-out">>)
                        /\ excluded' = excluded
                   ELSE /\ approved' = Append(approved,
                              <<"Lease Break Fee - " \o desc, cap,
                                "Capped at one month rent">>)
                        /\ excluded' = IF amt > cap
                                        THEN Append(excluded,
                                               <<desc, amt - cap, "Over one month rent">>)
                                        ELSE excluded
         ]_vars

\* C18 witness: with a monthly rent of $250, two lease-break charges have
\* been approved for $350 together and the unpaid rent charge after them
\* for its full $200.
C18_Witness ==
    /\ call.fn = "apply_policy_rules" /\ pc = "done"
    /\ monthly_rent = Dollars(250)
    /\ Len(charges) = 3
    /\ IsLeaseBreak(charges[1]) /\ IsLeaseBreak(charges[2])
    /\ ClassOf(charges[3]) = "unpaid_rent"
    /\ approved = <<<<"Lease Break Fee - fee", Dollars(250), "Capped at one month rent">>,
                    <<"Lease Break Fee - early exit", Dollars(100), "Capped at one month rent">>,
                    <<"Unpaid Rent - March", Dollars(200), "Capped at one month rent">>>>
    /\ excluded = <<<<"fee", Dollars(50), "Over one month rent">>>>
    /\ rent_used = Dollars(200)


\* The category that the text "category description" stands for: the first
\* of rekey, landscaping and utilities with a synonym in the text, else the
\* category itself.
Precedence(cat, desc) ==
    LET text == Lower(cat \o " " \o desc) IN
    IF \E k \in {"rekey", "locksmith", "lock change", "change locks"} : Contains(text, k)
    THEN "rekey"
    ELSE IF \E k \in {"landscaping", "lawn", "yard", "grounds"} : Contains(text, k)
    THEN "landscaping"
    ELSE IF \E k \in {"utility", "utilities", "water", "sewer", "gas", "electric", "power"} :
               Contains(text, k)
    THEN "unpaid_utilities"
    ELSE cat

\* The reasons that the branch of a category gives to its tuples.
ReasonsOf(cat) ==
    CASE cat = "cleaning" -> {"Beyond normal wear and tear", "Unspecified/normal wear"}
      [] cat = "rekey" -> {"Move-out rekey"}
      [] cat = "landscaping" -> {"Capped at $500", "Over $500 cap"}
      [] cat \in {"utilities", "unpaid_utilities"} -> {"Covered"}
      [] cat = "unpaid_rent" -> {"Capped at one month rent", "Over one month rent"}
      [] cat \in LeaseBreakCats ->
            {"Exception: accelerated move-out", "Capped at one month rent",
             "Over one month rent"}
      [] cat = "prorated_rent" ->
            {"Linked to occupancy/lease obligations", "Exclude unless clearly linked"}
      [] OTHER -> {"Unknown category (exclude)"}

\* The label prefixes that the branch of a category gives to what it approves.
PrefixOf(cat) ==
    CASE cat = "cleaning" -> "Cleaning - "
      [] cat = "rekey" -> "Rekey - "
      [] cat = "landscaping" -> "Landscaping - "
      [] cat \in {"utilities", "unpaid_utilities"} -> "Unpaid Utilities - "
      [] cat = "unpaid_rent" -> "Unpaid Rent - "
      [] cat \in LeaseBreakCats -> "Lease Break Fee"
      [] cat = "prorated_rent" -> "Prorated Rent - "
      [] OTHER -> "<never approved>"

\* The tuples that this step appends to a list.
Appended(old, new) == SubSeq(new, Len(old) + 1, Len(new))

\* This step handles its charge in the branch of the category.
HandledAs(cat) ==
    /\ Len(approved') + Len(excluded') > Len(approved) + Len(excluded)
    /\ \A k \in DOMAIN Appended(approved, approved') :
          /\ Appended(approved, approved')[k][3] \in ReasonsOf(cat)
          /\ StartsWith(Appended(approved, approved')[k][1], PrefixOf(cat))
    /\ \A k \in DOMAIN Appended(excluded, excluded') :
          Appended(excluded, excluded')[k][3] \in ReasonsOf(cat)

\* C19: a charge that reaches the normalization is handled in the branch
\* of the category that its lower-cased, trimmed category and its
\* description alone decide: rekey when the text "category description"
\* holds a rekey synonym, else landscaping when it holds a landscaping
\* synonym, else utilities when it holds a utility synonym, else the
\* category as given; the amount, the status, the wear, the position in
\* the list and the charges before it have no part in it.
C19_NormalizePrecedence ==
    [][(/\ AtUnpaid
        /\ ~HardExcluded(CatOf(charges[i]))
        /\ ~NormalWearExcluded(CatOf(charges[i]), WearOf(charges[i]))) =>
          HandledAs(Precedence(CatOf(charges[i]), DescOf(charges[i])))]_vars

\* C19 witness: a charge whose text holds synonyms of all three sets has
\* been approved as a rekey and one given as utilities with "yard" in its
\* description as landscaping.
C19_Witness ==
    /\ call.fn = "apply_policy_rules" /\ pc = "done"
    /\ Len(charges) = 2
    /\ charges[1].category = "misc" /\ charges[2].category = "Utilities "
    /\ approved = <<<<"Rekey - Locksmith, yard and water", Dollars(300), "Move-out rekey">>,
                    <<"Landscaping - yard work", Dollars(300), "Capped at $500">>>>
    /\ excluded = <<>>

----------------------------------------------------------------------------
(* Invariant of the pass of apply_policy_rules *)

\* The loop is at a charge, the amounts up to it are non-negative and so is
\* the monthly rent.
AtNonNegative ==
    /\ pc = "loop" /\ i <= Len(charges)
    /\ NonNegative(SubSeq(charges, 1, i))
    /\ monthly_rent >= 0

\* The amount that this step approves.
ApprovedNow == SumAmounts(Appended(approved, approved'))

\* C20: in the pass over charges with non-negative amounts and a
\* non-negative monthly rent, after every charge landscaping_used is between
\* 0 and $500 and rent_used between 0 and monthly_rent; both start at 0 and
\* never decrease; landscaping_used changes only on a charge classified as
\* landscaping and rent_used only on one classified as unpaid_rent, by the
\* amount approved for that charge; and with a cap exhausted, a charge of
\* its category is excluded in full.
C20_PassInvariant ==
    /\ []((pc \in {"loop", "done"} /\ NonNegative(Processed) /\ monthly_rent >= 0) =>
            /\ 0 <= landscaping_used /\ landscaping_used <= Dollars(500)
            /\ 0 <= rent_used /\ rent_used <= monthly_rent)
    /\ [][/\ (pc = "idle" /\ pc' = "loop") =>
                (landscaping_used' = 0 /\ rent_used' = 0)
          /\ AtNonNegative =>
                LET cls == ClassOf(charges[i]) IN
                /\ landscaping_used' >= landscaping_used
                /\ rent_used' >= rent_used
                /\ landscaping_used' =
                      landscaping_used + (IF cls = "landscaping" THEN ApprovedNow ELSE 0)
                /\ rent_used' =
                      rent_used + (IF cls = "unpaid_rent" THEN ApprovedNow ELSE 0)
                /\ (cls = "landscaping" /\ landscaping_used = Dollars(500)) =>
                      ExcludedInFull(charges[i], "Over $500 cap")
                /\ (cls = "unpaid_rent" /\ rent_used = monthly_rent) =>
                      ExcludedInFull(charges[i], "Over one month rent")
         ]_vars

\* C20 witness: a finished pass over non-negative amounts in which the
\* first landscaping charge has exhausted the $500 cap, the second has been
\* excluded in full, and the unpaid rent charge has exhausted the monthly
\* rent.
C20_Witness ==
    /\ call.fn = "apply_policy_rules" /\ pc = "done"
    /\ NonNegative(charges) /\ monthly_rent = Dollars(250)
    /\ Len(charges) = 3
    /\ landscaping_used = Dollars(500) /\ rent_used = monthly_rent
    /\ excluded = <<<<"mowing", Dollars(100), "Over $500 cap">>,
                    <<"mowing", Dollars(200) + 3, "Over $500 cap">>,
                    <<"March", Dollars(50) + 1, "Over one month rent">>>>

----------------------------------------------------------------------------
(* Conservation in apply_policy_rules *)

\* The sum of the amounts of the charges.
SumCharges(cs) == SumAmounts([k \in 1..Len(cs) |-> <<"", AmountOf(cs[k]), "">>])

\* This step only appends to the two lists.
AppendOnly ==
    /\ Len(approved') >= Len(approved)
    /\ SubSeq(approved', 1, Len(approved)) = approved
    /\ Len(excluded') >= Len(excluded)
    /\ SubSeq(excluded', 1, Len(excluded)) = excluded

\* This step accounts for the amount once: by one tuple that carries it, or
\* by one approved and one excluded tuple that sum to it.
AccountedOnce(amt) ==
    LET a == Appended(approved, approved')
        e == Appended(excluded, excluded')
    IN  \/ Len(a) = 1 /\ Len(e) = 0 /\ a[1][2] = amt
        \/ Len(a) = 0 /\ Len(e) = 1 /\ e[1][2] = amt
        \/ Len(a) = 1 /\ Len(e) = 1 /\ a[1][2] + e[1][2] = amt

\* C21: in the pass over charges with non-negative amounts and a
\* non-negative monthly rent, each charge appends to the lists either one
\* tuple with its full amount or one approved and one excluded tuple that
\* sum to its amount, so that the lists keep the input order; the approved
\* and excluded amounts together equal the amounts of the charges processed,
\* and the lists together hold between n and 2n tuples for n charges.
C21_Conservation ==
    /\ []((pc \in {"loop", "done"} /\ NonNegative(Processed) /\ monthly_rent >= 0) =>
            /\ SumAmounts(approved) + SumAmounts(excluded) = SumCharges(Processed)
            /\ Len(Processed) <= Len(approved) + Len(excluded)
            /\ Len(approved) + Len(excluded) <= 2 * Len(Processed))
    /\ [][AtNonNegative => (AppendOnly /\ AccountedOnce(AmountOf(charges[i])))]_vars

\* C21 witness: a finished pass over two charges with non-negative amounts
\* in which the first was approved in full and the second was split by the
\* landscaping cap, three tuples in all.
C21_Witness ==
    /\ call.fn = "apply_policy_rules" /\ pc = "done"
    /\ NonNegative(charges) /\ monthly_rent = Dollars(250)
    /\ approved = <<<<"Cleaning - carpet stain", Dollars(100) + 3, "Beyond normal wear and tear">>,
                    <<"Landscaping - mowing", Dollars(500), "Capped at $500">>>>
    /\ excluded = <<<<"mowing", Dollars(100), "Over $500 cap">>>>
    /\ SumCharges(charges) = Dollars(700) + 3

----------------------------------------------------------------------------
(* The two gates *)

\* C22: for every presence dict and every ledger evidence dict,
\* validate_gate of utils/rules.py and validate_gate of
\* services/ledger_review.py return the same approved flag and the same
\* details: what either returned is what the other returns for the
\* arguments of the call.
C22_GatesAgree ==
    /\ call.fn = "validate_gate" =>
          LET other == lr_validate_gate(call.documents_present, call.ledger) IN
          ret[1] = other[1] /\ ret[2] = other[2]
    /\ call.fn = "ledger_review.validate_gate" =>
          LET other == validate_gate(call.documents_present, call.ledger) IN
          ret[1] = other[1] /\ ret[2] = other[2]

\* C22 witness: the gate of ledger_review.py has declined a call with
\* the rent paid, the SDI premium flag absent and two required kinds not
\* present, one absent and one false, reported in sorted order.
C22_Witness ==
    /\ call.fn = "ledger_review.validate_gate"
    /\ "tenant_ledger" \notin DOMAIN call.documents_present
    /\ "first_month_sdi_premium_paid" \notin DOMAIN call.ledger
    /\ ret[1] = FALSE
    /\ ret[2]["First Month Paid"] = TRUE
    /\ ret[2]["First Month SDI Premium Paid"] = FALSE
    /\ ret[2]["Missing documents"] = <<"lease_addendum", "tenant_ledger">>
    /\ ret[2]["Status"] = "Declined"

----------------------------------------------------------------------------
(* Jurisdiction and the money *)

\* The payloads are the same but for jurisdiction and lease_state.
SameButJurisdiction(p, q) ==
    [p EXCEPT !.jurisdiction = None, !.lease_state = None]
        = [q EXCEPT !.jurisdiction = None, !.lease_state = None]

\* The payload has an effective jurisdiction.
JurisdictionPresent(p) ==
    p.jurisdiction \notin {None, ""} \/ p.lease_state \notin {None, ""}

\* The response without jurisdiction_used.
WithoutJurisdiction(resp) ==
    [k \in DOMAIN resp \ {"jurisdiction_used"} |-> resp[k]]

\* C23: two requests that have been served and differ only in jurisdiction
\* and lease_state, with an effective jurisdiction in both, have responses
\* that are the same but for jurisdiction_used: same gate verdict, same
\* approved and excluded charges, same total and same final payout.
C23_JurisdictionApart ==
    \A a, b \in Requests :
        LET fa == frames[a]
            fb == frames[b]
        IN  (/\ fa.pc = "done" /\ fb.pc = "done"
             /\ SameButJurisdiction(fa.payload, fb.payload)
             /\ JurisdictionPresent(fa.payload) /\ JurisdictionPresent(fb.payload)) =>
                /\ DOMAIN fa.response = DOMAIN fb.response
                /\ WithoutJurisdiction(fa.response) = WithoutJurisdiction(fb.response)
                /\ fa.response.validation = fb.response.validation
                /\ \A k \in {"Assessment Status", "Approved Charges", "Excluded Charges",
                              "Total Approved Charges", "Final Payout Based on Coverage"} :
                      fa.response.output_template[k] = fb.response.output_template[k]

\* C23 witness: two requests with the same charges, one with jurisdiction
\* NY and one with lease_state TX alone, have both got the final payout of
\* $150, with jurisdiction_used NY and TX.
C23_Witness ==
    /\ frames["A"].pc = "done" /\ frames["B"].pc = "done"
    /\ SameButJurisdiction(frames["A"].payload, frames["B"].payload)
    /\ frames["A"].payload.jurisdiction = "NY"
    /\ frames["B"].payload.jurisdiction = None /\ frames["B"].payload.lease_state = "TX"
    /\ frames["A"].response.final_payout_available
    /\ frames["B"].response.final_payout_available
    /\ frames["A"].response.jurisdiction_used = "NY"
    /\ frames["B"].response.jurisdiction_used = "TX"
    /\ frames["A"].response.output_template["Final Payout Based on Coverage"] = Dollars(150)
    /\ frames["B"].response.output_template["Final Payout Based on Coverage"] = Dollars(150)

====
